---- MODULE Spec2Model ----
(***************************************************************************)
(* ethsigner: key management and signing engine.                           *)
(*                                                                         *)
(* The key managers main can construct:                                    *)
(*   Local         - LocalKeyManager of the KeyManager interface           *)
(*                   (accounts set + encrypted key files, the password of  *)
(*                   a key comes with every sign request)                  *)
(*   LocalUnlocked - the earlier LocalKeyManager of the same file (keys    *)
(*                   map of private keys decrypted at startup with the     *)
(*                   configured password)                                  *)
(*   Remote        - VaultKeyManager (addressToKey map + transit keys)     *)
(* HTTP handlers call the Signer, which forwards to the KeyManager.        *)
(*                                                                         *)
(* Abstractions.  A key pair is identified by a positive index; keccak,    *)
(* RLP and ECDSA are modelled symbolically: a hash is the record of what   *)
(* was hashed, an (r,s) pair is the record of the key and hash that were   *)
(* signed together with the parity of the nonce point, so that public-key  *)
(* recovery can be computed the way secp256k1 recovery behaves.            *)
(***************************************************************************)
EXTENDS Integers, Sequences, FiniteSets, TLC

VARIABLES
    backend,       \* the key manager main has constructed
    password,      \* earlier LocalKeyManager.password (the configured one)
    keys,          \* earlier LocalKeyManager.keys (address -> private key)
    accounts,      \* LocalKeyManager.accounts (set of addresses)
    addressToKey,  \* VaultKeyManager.addressToKey (address -> key name)
    keyDir,        \* files of keyDir, address of the name -> [priv, password]
    vaultKeys,     \* Remote: transit keys of Vault, key name id -> private key
    rotated,       \* Remote: ids of the transit keys with versions "9", "10"
    mu,            \* sync.RWMutex of the key manager
    nextKey,       \* entropy: index of the next key pair to be generated
    pc,            \* per request goroutine: position in its handler
    req,           \* per request goroutine: the request being served
    loc,           \* per request goroutine: locals of the running operation
    res,           \* per request goroutine: what the operation returned
    created        \* history: addresses returned by successful CreateKey calls

vars == <<backend, password, keys, accounts, addressToKey, keyDir, vaultKeys,
          rotated,
          mu, nextKey, pc, req, loc, res, created>>

----------------------------------------------------------------------------
(* Bounds of the model *)

\* number of key pairs that can ever exist (pre-existing + created)
MaxKeys == 2
\* identifiers the random source is allowed to return in the model
MaxId == 1
\* chain ids 0..MaxChainId are tried besides 1337
MaxChainId == 1

Procs == {1, 2}
Keys == 1..MaxKeys

----------------------------------------------------------------------------
(* Addresses, key names, passwords *)

\* crypto.PubkeyToAddress: low 20 bytes of keccak-256 of the public key
PubkeyToAddress(pub) == [keccak20 |-> pub]

\* common.Address{}
ZeroAddress == [keccak20 |-> 0]

\* a public key recovered from a signature that no key of the model made
UnrelatedPub == MaxKeys + 3

\* key name built by fmt.Sprintf("eth-key-%d", id)
KeyNameOf(id) == [prefix |-> "eth-key-", id |-> id]

\* the zero value of a map value slot (string ""), seen mid-insert
EmptyKeyName == [prefix |-> "", id |-> -1]

\* rand.CryptoRandInt63n(2 ^ 63): in Go ^ is XOR, the argument is 2 XOR 63
RandArg == 61

\* the identifiers CreateKey can draw: [0, RandArg), cut to the model bound
RandIds == {i \in 0..(MaxId - 1) : i < RandArg}

\* generatePassword(): 32 random bytes in hex; the password generated with
\* the k-th key pair
PasswordOf(k) == [hex |-> k]

\* the empty string as a secret
NoSecret == [hex |-> 0]

\* the content of a key file: the private key and the password that
\* decrypts it (keystore.EncryptKey / keystore.DecryptKey)
KeyJson(priv, pass) == [priv |-> priv, password |-> pass]

\* the content of a file that os.WriteFile has created and not filled: no
\* password decrypts it
TruncatedFile == KeyJson(0, [hex |-> -1])

\* addresses a request may name: every key of the model and one more
AddressInputs == {PubkeyToAddress(k) : k \in 1..(MaxKeys + 1)}

ChainIds == (0..MaxChainId) \cup {1337}

----------------------------------------------------------------------------
(* Transactions and signing hashes (go-ethereum core/types) *)

\* a *big.Int of the request that is nil (absent from the JSON body)
Nil == -1

\* a *common.Address that is nil (request without "to")
NilAddress == [keccak20 |-> Nil]

\* the recipient of every transaction of the model
Recipient == PubkeyToAddress(MaxKeys + 2)

\* types.NewTx copies the inner data: a nil *big.Int becomes zero
BigOrZero(x) == IF x = Nil THEN 0 ELSE x

\* types.NewTx(&types.LegacyTx{Nonce, GasPrice, Gas, To, Value, Data})
NewLegacyTx(nonce, gasPrice, gas, to, value, data) ==
    [type |-> "Legacy", chainId |-> 0, nonce |-> nonce,
     gasPrice |-> BigOrZero(gasPrice), gasTipCap |-> 0, gasFeeCap |-> 0,
     gas |-> gas, to |-> to, value |-> BigOrZero(value), data |-> data]

\* types.NewTx(&types.DynamicFeeTx{ChainID, Nonce, GasFeeCap, GasTipCap, Gas,
\* To, Value, Data})
NewDynamicFeeTx(chainID, nonce, gasFeeCap, gasTipCap, gas, to, value, data) ==
    [type |-> "DynamicFee", chainId |-> BigOrZero(chainID), nonce |-> nonce,
     gasPrice |-> 0, gasTipCap |-> BigOrZero(gasTipCap),
     gasFeeCap |-> BigOrZero(gasFeeCap),
     gas |-> gas, to |-> to, value |-> BigOrZero(value), data |-> data]

\* tx.GasPrice(): the gas price of a legacy transaction, the fee cap of a
\* dynamic-fee transaction
TxGasPrice(tx) == IF tx.type = "Legacy" THEN tx.gasPrice ELSE tx.gasFeeCap

\* HomesteadSigner.Hash: rlp of six fields
HomesteadHash(tx) ==
    [alg |-> "rlp6", typeByte |-> -1,
     fields |-> <<tx.nonce, TxGasPrice(tx), tx.gas, tx.to, tx.value, tx.data>>]

\* EIP155Signer.Hash: rlp of (nonce, gasPrice, gas, to, value, data,
\* chainId, 0, 0), whatever the type of the transaction
EIP155Hash(tx, chainID) ==
    [alg |-> "rlp9", typeByte |-> -1,
     fields |-> <<tx.nonce, TxGasPrice(tx), tx.gas, tx.to, tx.value, tx.data,
                  chainID, 0, 0>>]

\* DynamicFeeTx.sigHash: type byte 0x02 followed by rlp of (chainId, nonce,
\* gasTipCap, gasFeeCap, gas, to, value, data, accessList)
DynamicFeeHash(tx, chainID) ==
    [alg |-> "typed", typeByte |-> 2,
     fields |-> <<chainID, tx.nonce, tx.gasTipCap, tx.gasFeeCap, tx.gas,
                  tx.to, tx.value, tx.data, <<>> >>]

\* the signer types.NewPragueSigner(chainID): legacy transactions go to the
\* embedded EIP155 signer, typed ones hash their own payload
PragueHash(tx, chainID) ==
    IF tx.type = "Legacy" THEN EIP155Hash(tx, chainID)
    ELSE DynamicFeeHash(tx, chainID)

\* crypto.Keccak256Hash of
\* fmt.Sprintf("\x19Ethereum Signed Message:\n%d%s", len(message), message)
PrefixedMessageHash(message) ==
    [alg |-> "keccak", typeByte |-> -1,
     fields |-> <<"\\x19Ethereum Signed Message:\\n", Len(message), message>>]

----------------------------------------------------------------------------
(* ECDSA over secp256k1 (go-ethereum crypto) *)

\* the hash of nothing: the value of a hash variable not yet assigned
NoHash == [alg |-> "none", typeByte |-> -1, fields |-> <<>>]

\* the (r,s) pair made by key k over hash h; par is the parity of the
\* nonce point, the one recovery id that leads back to k
SignatureRS(k, h, par) == [k |-> k, h |-> h, par |-> par, valid |-> TRUE]

\* 64 bytes that are no point/scalar pair of the curve
MalformedRS(h) == [k |-> 0, h |-> h, par |-> 0, valid |-> FALSE]

\* what Vault's sign/<key>/sha2-256 endpoint signs when it hashes its input
Sha256Of(h) == [alg |-> "sha2-256", typeByte |-> -1, fields |-> <<h>>]

\* crypto.Ecrecover(hash, rs || v): the public key, or an error
Ecrecover(hash, rs, v) ==
    IF ~rs.valid THEN [ok |-> FALSE, pub |-> 0]
    ELSE IF rs.h = hash /\ rs.par = v THEN [ok |-> TRUE, pub |-> rs.k]
    ELSE [ok |-> TRUE, pub |-> UnrelatedPub]

\* EIP155Signer.SignatureValues: only legacy transactions; V folds the
\* chain id unless the chain id is zero
EIP155SignatureValues(tx, chainID, recid) ==
    IF tx.type # "Legacy" THEN [err |-> "ErrTxTypeNotSupported", v |-> 0]
    ELSE IF chainID # 0 THEN [err |-> "", v |-> recid + 35 + 2 * chainID]
    ELSE [err |-> "", v |-> recid + 27]

\* SignatureValues of the Prague signer: legacy transactions go to the
\* EIP155 signer; a typed transaction must carry the signer's chain id (or
\* zero) and keeps V = recovery id
PragueSignatureValues(tx, chainID, recid) ==
    IF tx.type = "Legacy" THEN EIP155SignatureValues(tx, chainID, recid)
    ELSE IF tx.chainId # 0 /\ tx.chainId # chainID
         THEN [err |-> "ErrInvalidChainId", v |-> 0]
    ELSE [err |-> "", v |-> recid]

\* a transaction that is not (or could not be) signed
NoTx == [type |-> "none"]

\* tx.WithSignature(signer, sig) given the signer's chain id and its
\* SignatureValues: setSignatureValues of a typed transaction stores the
\* chain id of the signer in the copy, that of a legacy transaction the
\* three signature values only
WithSignature(tx, chainID, sv, rs) ==
    IF sv.err # "" THEN [err |-> sv.err, tx |-> NoTx]
    ELSE [err |-> "",
          tx |-> [type |-> tx.type,
                  body |-> IF tx.type = "Legacy" THEN tx
                           ELSE [tx EXCEPT !.chainId = chainID],
                  v |-> sv.v, rs |-> rs]]

----------------------------------------------------------------------------
(* Requests, locals and results of a request goroutine *)

\* a request without the headers X-API-Key, X-Timestamp, X-Signature:
\* r.Header.Get returns the empty string for each
BareHeaders == [apiKey |-> "", timestamp |-> <<>>, signature |-> <<>>]

\* hdr, body: the three headers and the raw body as received
NoReq == [route |-> "none", method |-> "none", authed |-> FALSE,
          hdr |-> BareHeaders, body |-> <<>>,
          from |-> ZeroAddress, secret |-> NoSecret, chainId |-> 0,
          tx |-> NoTx, message |-> <<>>, begun |-> 0]

\* fmt.Errorf("<format>: %w", err): the text of the wrapped error follows
\* the text of the wrapper
Errorf(format, err) == format \o ": " \o err

\* an error value: its text, and the key name fmt.Errorf printed into it
\* (the empty name if none).  Addresses printed into a text are left out.
ErrorOf(text, keyName) == [text |-> text, keyName |-> keyName]

\* the nil error
NoError == ErrorOf("", EmptyKeyName)

\* keyJson: the encrypted key CreateKey is writing; privateKey: the key the
\* earlier LocalKeyManager has looked up; derr: the error getAddressForKey
\* returned to CreateKey;
\* hashed: a signing hash was computed and handed to the key (loc.hash);
\* answered: the key answered with 64 or 65 bytes (loc.rs);
\* signCalls: calls of the backend's sign endpoint made for this request;
\* rv: what recoverV returned for the answer (VaultKeyManager only);
\* rsLen: the number of bytes signWithVault returned;
\* rollback: how the compensation of a failed CreateKey went
NoLoc == [address |-> ZeroAddress, keyName |-> EmptyKeyName,
          password |-> NoSecret, keyJson |-> TruncatedFile, privateKey |-> 0,
          derr |-> NoError, hashed |-> FALSE, hash |-> NoHash,
          answered |-> FALSE, rs |-> MalformedRS(NoHash), rsLen |-> 0,
          signCalls |-> 0,
          rv |-> [err |-> "", v |-> 0], rollback |-> "none"]

NoSig == [rs |-> MalformedRS(NoHash), v |-> 0, len |-> 0]

\* errKeyName: the key name the text of err spells out, if any
NoRes == [op |-> "none", err |-> "", errKeyName |-> EmptyKeyName,
          status |-> 0, accounts |-> {},
          address |-> ZeroAddress, secret |-> NoSecret,
          signedTx |-> NoTx, signature |-> NoSig,
          body |-> [text |-> ""]]

\* the Address Map of the key manager: its key set
AddressMapKeys ==
    CASE backend = "Local" -> accounts
      [] backend = "LocalUnlocked" -> DOMAIN keys
      [] OTHER -> DOMAIN addressToKey

\* sync.RWMutex.RLock proceeds when no writer holds the mutex
CanRLock(m) == m.writer = 0

\* a Lock that does not wait for the readers
CanLock_IgnoringReaders(m) == m.writer = 0

\* sync.RWMutex.Lock proceeds when nobody holds the mutex
CanLock(m) == m.writer = 0 /\ m.readers = {}

\* the panic of types.NewPragueSigner in the go-ethereum releases that
\* refuse a chain id that is not positive
InvalidChainIdPanic == "panic: invalid chainID"

\* the run-time panics of signWithVault: resp.Data of a nil response,
\* sigParts[1] of a one-element slice, rBytes[32-len(r):] with len(r) > 32
NilResponsePanic == "panic: nil pointer dereference"
IndexPanic == "panic: index out of range [1] with length 1"
SliceBoundsPanic == "panic: slice bounds out of range"

\* the errors that are panics: they unwind the handler
Panics == {InvalidChainIdPanic, NilResponsePanic, IndexPanic, SliceBoundsPanic}

\* the status a handler answers with once the core call has returned r:
\* every error of the core is a 500; POST /create-account answers 201; a
\* panic unwinds the handler before it writes a status
HttpStatus(route, r) ==
    IF r.err \in Panics THEN 0
    ELSE IF r.err # "" THEN 500
    ELSE IF route = "/create-account" THEN 201
    ELSE 200

\* the hex string of an address: its text is well-formed hex and decodes to
\* the address
HexOf(a) == [text |-> "hex", addr |-> a]

\* what a handler puts before err.Error() in the text of http.Error
HandlerErrorPrefix(route) ==
    CASE route = "/create-account" -> "Failed to create new account: "
      [] route = "/sign-transaction" -> "Failed to sign transaction: "
      [] route = "/sign-message" -> "Failed to sign message: "
      [] OTHER -> ""

\* the body a handler writes once the core call has returned r: nothing
\* after a panic, the text of http.Error after an error (with the key name
\* the error spells out), else the JSON document of the route: the hex
\* addresses, CreateAccountResponse, SignTxResponse (hex of the binary
\* encoding), SignMessageResponse
ResponseBody(route, r) ==
    IF r.err \in Panics THEN [text |-> ""]
    ELSE IF r.err # ""
    THEN [text |-> HandlerErrorPrefix(route) \o r.err, keyName |-> r.errKeyName]
    ELSE CASE route = "/accounts" -> [accounts |-> {HexOf(a) : a \in r.accounts}]
           [] route = "/create-account" -> [address |-> HexOf(r.address)]
           [] route = "/sign-transaction" -> [rawTx |-> [hex |-> r.signedTx]]
           [] route = "/sign-message" -> [signature |-> [hex |-> r.signature]]
           [] OTHER -> [text |-> ""]

\* an operation returns to its handler, which writes the response
Return(p, r) ==
    /\ res' = [res EXCEPT ![p] =
                 [r EXCEPT !.status = HttpStatus(req[p].route, r),
                           !.body = ResponseBody(req[p].route, r)]]
    /\ pc' = [pc EXCEPT ![p] = "done"]

----------------------------------------------------------------------------
(* getAddressForKey: the address of a transit key *)

\* the text of an error a library returns (the Vault client, os, crypto/rand,
\* keystore, base64, x509): its wording is not in the sources
LibraryError(lib) == "<" \o lib \o " error>"

\* what Logical().Read(keys/<keyName>) can answer.  read: "error" (the call
\* fails), "nil" (no secret: the engine has no such key), "noKeys" (a
\* secret without "keys"), "keysNotMap" ("keys" is no object), "data".
\* versions: the entries of "keys", each with its version (a decimal string,
\* held as its digits), the kind of its value and the key pair behind it.
\* Kinds: "notMap" (the entry is no object), "noPublicKey" (no string
\* public_key), "garbage" (a string that is neither PEM nor base64),
\* "pemBadDer" (PEM whose bytes x509.ParsePKIXPublicKey rejects, as it does
\* for a curve it does not know), "pemNotEcdsa" (PEM of a key of another
\* algorithm), "pemEcdsa" (PEM of the ECDSA key), "b64NotPoint" (base64 of
\* bytes that are no curve point), "b64Point" (base64 of the public key).
\* A key the engine has rotated answers with its versions "9" and "10",
\* each a key pair of its own (signing uses the newest); any other key
\* with its version "1".
AnswerShapes ==
    {"error", "noKeys", "keysNotMap", "noVersions", "notMap", "noPublicKey",
     "garbage", "pemBadDer", "pemNotEcdsa", "pemEcdsa", "b64NotPoint",
     "b64Point"}

\* the answers of the shapes in shapes to the Read of keyName
ReadAnswers(transitKeys, rotatedKeys, keyName, shapes) ==
    LET Answer(read, versions) == [read |-> read, versions |-> versions]
        Entry(version, kind, pub) ==
            [version |-> version, kind |-> kind, pub |-> pub]
        Kinds == {"notMap", "noPublicKey", "garbage", "pemBadDer",
                  "pemNotEcdsa", "pemEcdsa", "b64NotPoint", "b64Point"}
        RetiredKey(k) == MaxKeys + 3 + k
    IN  IF keyName.id \notin DOMAIN transitKeys
        THEN {Answer("error", {}) : x \in shapes \cap {"error"}}
               \cup {Answer("nil", {})}
        ELSE LET k == transitKeys[keyName.id] IN
               {Answer(read, {}) :
                  read \in shapes \cap {"error", "noKeys", "keysNotMap"}}
                 \cup {Answer("data", {}) : x \in shapes \cap {"noVersions"}}
                 \cup {Answer("data",
                              IF keyName.id \in rotatedKeys
                              THEN {Entry(<<9>>, kind, RetiredKey(k)),
                                    Entry(<<1, 0>>, kind, k)}
                              ELSE {Entry(<<1>>, kind, k)}) :
                         kind \in shapes \cap Kinds}

\* latestVersion := "0"; for v := range keysData { if v > latestVersion
\* { latestVersion = v } }: the greatest of "0" and the versions in the
\* order of Go strings, byte by byte ("9" > "10")
LatestVersion(versions) ==
    LET Greater(a, b) ==
          \E i \in 1..Len(a) :
              /\ \A j \in 1..(i - 1) : j <= Len(b) /\ a[j] = b[j]
              /\ (i > Len(b) \/ a[i] > b[i])
        all == versions \cup {<<0>>}
    IN  CHOOSE v \in all : \A w \in all : ~Greater(w, v)

\* VaultKeyManager.getAddressForKey(keyName) when the Read is answered with
\* answer: the error of the Read is returned as it is, the error for a
\* key the engine does not hold spells out the key name, the public key
\* is the one of the version LatestVersion picks, PEM-decoded, parsed by
\* x509.ParsePKIXPublicKey and asserted to be an ECDSA key
getAddressForKey(keyName, answer) ==
    LET Fail(text) == [err |-> ErrorOf(text, EmptyKeyName),
                       address |-> ZeroAddress]
        latest == LatestVersion({e.version : e \in answer.versions})
        found == {e \in answer.versions : e.version = latest}
        entry == CHOOSE e \in found : TRUE
    IN  CASE answer.read = "error" -> Fail(LibraryError("vault"))
          [] answer.read \in {"nil", "noKeys"} ->
               [err |-> ErrorOf("key '%s' not found in vault", keyName),
                address |-> ZeroAddress]
          [] answer.read = "keysNotMap" ->
               Fail("unexpected format for key data")
          [] found = {} -> Fail("unexpected format for key version data")
          [] entry.kind = "notMap" ->
               Fail("unexpected format for key version data")
          [] entry.kind = "noPublicKey" ->
               Fail("public key not found in key data")
          [] entry.kind \in {"garbage", "b64NotPoint", "b64Point"} ->
               Fail("failed to parse PEM block containing the public key")
          [] entry.kind = "pemBadDer" ->
               Fail(Errorf("failed to parse DER encoded public key",
                           LibraryError("x509")))
          [] entry.kind = "pemNotEcdsa" ->
               Fail("key is not an ECDSA public key")
          [] OTHER -> [err |-> NoError,
                       address |-> PubkeyToAddress(entry.pub)]

\* the earlier KeyManager.getAddressForKey(keyName): the same up to the
\* public_key string, which is base64-decoded and handed to
\* crypto.UnmarshalPubkey, then to crypto.DecompressPubkey
KeyManager_getAddressForKey(keyName, answer) ==
    LET Fail(text) == [err |-> ErrorOf(text, EmptyKeyName),
                       address |-> ZeroAddress]
        latest == LatestVersion({e.version : e \in answer.versions})
        found == {e \in answer.versions : e.version = latest}
        entry == CHOOSE e \in found : TRUE
    IN  CASE answer.read = "error" -> Fail(LibraryError("vault"))
          [] answer.read \in {"nil", "noKeys"} ->
               [err |-> ErrorOf("key '%s' not found in vault", keyName),
                address |-> ZeroAddress]
          [] answer.read = "keysNotMap" ->
               Fail("unexpected format for key data")
          [] found = {} -> Fail("unexpected format for key version data")
          [] entry.kind = "notMap" ->
               Fail("unexpected format for key version data")
          [] entry.kind = "noPublicKey" ->
               Fail("public key not found in key data")
          [] entry.kind \in {"garbage", "pemBadDer", "pemNotEcdsa",
                             "pemEcdsa"} ->
               Fail(Errorf("failed to decode public key",
                           LibraryError("base64")))
          [] entry.kind = "b64NotPoint" ->
               Fail("failed to unmarshal or parse public key: %v / %v")
          [] OTHER -> [err |-> NoError,
                       address |-> PubkeyToAddress(entry.pub)]

----------------------------------------------------------------------------
(* Startup: NewLocalKeyManager / NewVaultKeyManager + loadExistingKeys *)

\* number of keys the backend already holds at startup
PreExisting == {0, 1}

\* the key directory as CreateKey leaves it after n creations: the file of
\* key k is named after the address of k
WrittenKeyDir(n) ==
    [a \in {PubkeyToAddress(k) : k \in 1..n} |->
        KeyJson(a.keccak20, PasswordOf(a.keccak20))]

\* a key directory with one file that was renamed: it holds the encrypted
\* key 1 under the name of another address
RenamedKeyDir ==
    [a \in {PubkeyToAddress(MaxKeys + 1)} |-> KeyJson(1, PasswordOf(1))]

\* the key directories NewLocalKeyManager is started on, with the number of
\* key pairs each holds
LocalStartDirs ==
    {[files |-> WrittenKeyDir(n), n |-> n] : n \in PreExisting}
        \cup {[files |-> RenamedKeyDir, n |-> 1]}

\* NewLocalKeyManager: every file whose name without its extension is a hex
\* address becomes an account; the file is not opened
LoadLocalAccounts(files) == DOMAIN files

\* the answers a transit engine that holds the keys 0..n-1, those in rot
\* rotated, can give to the Reads of loadExistingKeys, one for every key
StartAnswers(n, rot) ==
    LET engine == [i \in 0..(n - 1) |-> i + 1]
        Of(i) == ReadAnswers(engine, rot, KeyNameOf(i), AnswerShapes)
    IN  {f \in [0..(n - 1) -> UNION {Of(i) : i \in 0..(n - 1)}] :
           \A i \in 0..(n - 1) : f[i] \in Of(i)}

\* loadExistingKeys: for every key name listed, getAddressForKey is called;
\* a key whose address cannot be derived is skipped with a warning, the
\* address of every other key is mapped to its name.  results holds, for
\* the id of every key listed, what getAddressForKey returned.
LoadExistingKeys(results) ==
    LET derived == {i \in DOMAIN results : results[i].err = NoError} IN
      [a \in {results[i].address : i \in derived} |->
          KeyNameOf(CHOOSE i \in derived : results[i].address = a)]

\* local_key_manager.go holds two key managers named LocalKeyManager, each
\* with its constructor, and no build settles which one main constructs:
\* main passes (keyDir, password), the arity of the earlier one, whose
\* methods have the signatures signer.go forwards to; LocalConfig has no
\* password and the handlers pass the secret of the request, as the
\* KeyManager interface and the later one have it.  Each of the two is a
\* key manager of the model, started by its own constructor and served by
\* its own methods.

\* NewLocalKeyManager(keyDir) on the key directory dir: the file names are
\* the accounts
NewLocalKeyManager(dir) ==
    /\ nextKey = dir.n + 1
    /\ keyDir = dir.files
    /\ accounts = LoadLocalAccounts(dir.files)
    /\ password = NoSecret
    /\ keys = << >>
    /\ vaultKeys = << >>
    /\ rotated = {}
    /\ addressToKey = << >>

\* the passwords main can hand to the two-argument constructor: the one
\* that encrypts key 1, or none
ConfiguredPasswords == {PasswordOf(1), NoSecret}

\* NewLocalKeyManager(keyDir, password) on the key directory dir.  The
\* loop over the files: a file keystore.DecryptKey cannot open with the
\* password is skipped with a warning; km.keys maps the address of every
\* key decrypted (key.Address, derived from the key, not the name of the
\* file) to the key
NewUnlockedKeyManager(dir, configured) ==
    /\ nextKey = dir.n + 1
    /\ keyDir = dir.files
    /\ password = configured
    /\ keys =
         LET files == dir.files
             opened == {f \in DOMAIN files :
                          files[f].password = configured} IN
           [a \in {PubkeyToAddress(files[f].priv) : f \in opened} |->
               files[CHOOSE f \in opened :
                       PubkeyToAddress(files[f].priv) = a].priv]
    /\ accounts = {}
    /\ vaultKeys = << >>
    /\ rotated = {}
    /\ addressToKey = << >>

\* NewVaultKeyManager on a transit engine that holds n keys, those in rot
\* rotated, the Read of key i being answered with answers[i]
NewVaultKeyManager(n, rot, answers) ==
    /\ nextKey = n + 1
    /\ vaultKeys = [i \in 0..(n - 1) |-> i + 1]
    /\ rotated = rot
    /\ addressToKey =
         LoadExistingKeys([i \in 0..(n - 1) |->
                             getAddressForKey(KeyNameOf(i), answers[i])])
    /\ keyDir = << >>
    /\ accounts = {}
    /\ password = NoSecret
    /\ keys = << >>

\* no request is being served: the mutex is the zero value
NoRequests ==
    /\ mu = [writer |-> 0, readers |-> {}]
    /\ pc = [p \in Procs |-> "idle"]
    /\ req = [p \in Procs |-> NoReq]
    /\ loc = [p \in Procs |-> NoLoc]
    /\ res = [p \in Procs |-> NoRes]
    /\ created = << >>

\* main: the key manager cfg.KeyManager.Type names is constructed, for
\* "local" either of the two LocalKeyManagers
Init ==
    /\ backend \in {"Local", "LocalUnlocked", "Remote"}
    /\ CASE backend = "Local" ->
              \E dir \in LocalStartDirs : NewLocalKeyManager(dir)
         [] backend = "LocalUnlocked" ->
              \E dir \in LocalStartDirs : \E configured \in ConfiguredPasswords :
                  NewUnlockedKeyManager(dir, configured)
         [] OTHER ->
              \E n \in PreExisting : \E rot \in SUBSET (0..(n - 1)) :
                  \E answers \in StartAnswers(n, rot) :
                      NewVaultKeyManager(n, rot, answers)
    /\ NoRequests

----------------------------------------------------------------------------
(* GetAccounts (both key managers) *)

\* km.mu.RLock()
GA_RLock(p) ==
    /\ pc[p] = "ga_rlock"
    /\ CanRLock(mu)
    /\ mu' = [mu EXCEPT !.readers = @ \cup {p}]
    /\ pc' = [pc EXCEPT ![p] = "ga_range"]
    /\ UNCHANGED <<backend, password, keys, accounts, addressToKey, keyDir,
                   vaultKeys, rotated, nextKey, req, loc, res, created>>

\* for addr := range km.accounts / km.addressToKey { append }
GA_Range(p) ==
    /\ pc[p] = "ga_range"
    /\ res' = [res EXCEPT ![p] =
                 [NoRes EXCEPT !.op = "GetAccounts",
                               !.accounts = AddressMapKeys]]
    /\ pc' = [pc EXCEPT ![p] = "ga_runlock"]
    /\ UNCHANGED <<backend, password, keys, accounts, addressToKey, keyDir,
                   vaultKeys, rotated, mu, nextKey, req, loc, created>>

\* a GetAccounts that returns without the deferred RUnlock
GA_RUnlock_Leaking(p) ==
    /\ pc[p] = "ga_runlock"
    /\ Return(p, res[p])
    /\ UNCHANGED <<backend, password, keys, accounts, addressToKey, keyDir,
                   vaultKeys, rotated, mu, nextKey, req, loc, created>>

\* deferred km.mu.RUnlock(); return addresses
GA_RUnlock(p) ==
    /\ pc[p] = "ga_runlock"
    /\ mu' = [mu EXCEPT !.readers = @ \ {p}]
    /\ Return(p, res[p])
    /\ UNCHANGED <<backend, password, keys, accounts, addressToKey, keyDir,
                   vaultKeys, rotated, nextKey, req, loc, created>>

----------------------------------------------------------------------------
(* CreateKey *)

\* the error result of CreateKey: zero address, no secret
CreateKeyError(e) ==
    [NoRes EXCEPT !.op = "CreateKey", !.err = e]

\* LocalKeyManager.CreateKey up to keystore.EncryptKey: a fresh key pair and
\* a fresh password are generated and the key is encrypted with the
\* password.  Each of the three calls may fail.
CK_LocalGenerate(p, D) ==
    /\ pc[p] = "ck_backend"
    /\ backend = "Local"
    /\ \/ /\ nextKey <= D.maxKeys
          /\ loc' = [loc EXCEPT ![p].address = PubkeyToAddress(nextKey),
                                ![p].password = PasswordOf(nextKey),
                                ![p].keyJson =
                                     KeyJson(nextKey, PasswordOf(nextKey))]
          /\ nextKey' = nextKey + 1
          /\ pc' = [pc EXCEPT ![p] = "ck_open"]
          /\ UNCHANGED res
       \/ /\ \E e \in {Errorf("failed to generate private key",
                              LibraryError("rand")),
                       Errorf("failed to generate password",
                              LibraryError("rand")),
                       Errorf("failed to encrypt private key",
                              LibraryError("keystore"))} :
                Return(p, CreateKeyError(e))
          /\ UNCHANGED <<loc, nextKey>>
    /\ UNCHANGED <<backend, password, keys, accounts, addressToKey, keyDir,
                   vaultKeys, rotated, mu, req, created>>

\* the earlier LocalKeyManager.CreateKey up to keystore.EncryptKey: a fresh
\* key pair is generated and encrypted with the configured password; no
\* secret is made for the caller.  Each of the two calls may fail.
CK_UnlockedGenerate(p, D) ==
    /\ pc[p] = "ck_backend"
    /\ backend = "LocalUnlocked"
    /\ \/ /\ nextKey <= D.maxKeys
          /\ loc' = [loc EXCEPT ![p].address = PubkeyToAddress(nextKey),
                                ![p].privateKey = nextKey,
                                ![p].keyJson = KeyJson(nextKey, password)]
          /\ nextKey' = nextKey + 1
          /\ pc' = [pc EXCEPT ![p] = "ck_open"]
          /\ UNCHANGED res
       \/ /\ \E e \in {Errorf("failed to generate private key",
                              LibraryError("rand")),
                       Errorf("failed to encrypt private key",
                              LibraryError("keystore"))} :
                Return(p, CreateKeyError(e))
          /\ UNCHANGED <<loc, nextKey>>
    /\ UNCHANGED <<backend, password, keys, accounts, addressToKey, keyDir,
                   vaultKeys, rotated, mu, req, created>>

\* os.WriteFile(keyDir/<address>.json, keyJson, 0600), first half: the file
\* is opened with O_CREATE|O_TRUNC and is there, empty; or it cannot be
\* opened and CreateKey returns the error
CK_WriteFileOpen(p) ==
    /\ pc[p] = "ck_open"
    /\ \/ /\ keyDir' = [a \in DOMAIN keyDir \cup {loc[p].address} |->
                          IF a = loc[p].address THEN TruncatedFile
                          ELSE keyDir[a]]
          /\ pc' = [pc EXCEPT ![p] = "ck_write"]
          /\ UNCHANGED res
       \/ /\ Return(p, CreateKeyError(Errorf("failed to save encrypted key",
                                              LibraryError("os"))))
          /\ UNCHANGED keyDir
    /\ UNCHANGED <<backend, password, keys, accounts, addressToKey, vaultKeys, rotated,
                   mu, nextKey, req, loc, created>>

\* os.WriteFile, second half: the encrypted key is written and the file
\* closed; or the write fails, the file stays as it is and CreateKey
\* returns the error
CK_WriteFileData(p) ==
    /\ pc[p] = "ck_write"
    /\ \/ /\ keyDir' = [keyDir EXCEPT ![loc[p].address] = loc[p].keyJson]
          /\ pc' = [pc EXCEPT ![p] = "ck_lock"]
          /\ UNCHANGED res
       \/ /\ Return(p, CreateKeyError(Errorf("failed to save encrypted key",
                                              LibraryError("os"))))
          /\ UNCHANGED keyDir
    /\ UNCHANGED <<backend, password, keys, accounts, addressToKey, vaultKeys, rotated,
                   mu, nextKey, req, loc, created>>

\* a CreateKey that takes the write lock before it calls the backend
CK_VaultWrite_UnderLock(p, D) ==
    /\ pc[p] = "ck_backend"
    /\ backend = "Remote"
    /\ CanLock(mu)
    /\ \E id \in RandIds :
         \/ /\ id \in DOMAIN vaultKeys \/ nextKey <= D.maxKeys
            /\ IF id \in DOMAIN vaultKeys
               THEN UNCHANGED <<vaultKeys, nextKey>>
               ELSE /\ vaultKeys' = [i \in DOMAIN vaultKeys \cup {id} |->
                                       IF i = id THEN nextKey
                                       ELSE vaultKeys[i]]
                    /\ nextKey' = nextKey + 1
            /\ loc' = [loc EXCEPT ![p].keyName = KeyNameOf(id)]
            /\ mu' = [mu EXCEPT !.writer = p]
            /\ pc' = [pc EXCEPT ![p] = "ck_addr"]
            /\ UNCHANGED res
         \/ /\ Return(p, CreateKeyError(Errorf("failed to create key in vault",
                                                LibraryError("vault"))))
            /\ UNCHANGED <<vaultKeys, nextKey, loc, mu>>
    /\ UNCHANGED <<backend, password, keys, accounts, addressToKey, keyDir,
                   rotated, req, created>>

\* VaultKeyManager.CreateKey up to the Write of keys/<keyName>: the id is
\* drawn (an error of the random source is dropped and leaves id = 0), and
\* Vault creates the key unless a key of that name exists already, which it
\* keeps.  The write may fail.
CK_VaultWrite(p, D) ==
    /\ pc[p] = "ck_backend"
    /\ backend = "Remote"
    /\ \E id \in RandIds :
         \/ /\ id \in DOMAIN vaultKeys \/ nextKey <= D.maxKeys
            /\ IF id \in DOMAIN vaultKeys
               THEN UNCHANGED <<vaultKeys, nextKey>>
               ELSE /\ vaultKeys' = [i \in DOMAIN vaultKeys \cup {id} |->
                                       IF i = id THEN nextKey
                                       ELSE vaultKeys[i]]
                    /\ nextKey' = nextKey + 1
            /\ loc' = [loc EXCEPT ![p].keyName = KeyNameOf(id)]
            /\ pc' = [pc EXCEPT ![p] = "ck_addr"]
            /\ UNCHANGED res
         \/ /\ Return(p, CreateKeyError(Errorf("failed to create key in vault",
                                                LibraryError("vault"))))
            /\ UNCHANGED <<vaultKeys, nextKey, loc>>
    /\ UNCHANGED <<backend, password, keys, accounts, addressToKey, keyDir,
                   rotated, mu, req, created>>

\* address, err := km.getAddressForKey(keyName) in CreateKey
CK_GetAddressForKey(p, D) ==
    /\ pc[p] = "ck_addr"
    /\ \E answer \in ReadAnswers(vaultKeys, rotated, loc[p].keyName, D.answers) :
         LET out == getAddressForKey(loc[p].keyName, answer) IN
           IF out.err = NoError
           THEN /\ loc' = [loc EXCEPT ![p].address = out.address]
                /\ pc' = [pc EXCEPT ![p] = "ck_lock"]
           ELSE /\ loc' = [loc EXCEPT ![p].derr = out.err]
                /\ pc' = [pc EXCEPT ![p] = "ck_rollback"]
    /\ UNCHANGED <<backend, password, keys, accounts, addressToKey, keyDir,
                   vaultKeys, rotated, mu, nextKey, req, res, created>>

\* address, err := km.getAddressForKey(keyName) in the earlier CreateKey
KM_GetAddressForKey(p, D) ==
    /\ pc[p] = "ck_addr"
    /\ \E answer \in ReadAnswers(vaultKeys, rotated, loc[p].keyName, D.answers) :
         LET out == KeyManager_getAddressForKey(loc[p].keyName, answer) IN
           IF out.err = NoError
           THEN /\ loc' = [loc EXCEPT ![p].address = out.address]
                /\ pc' = [pc EXCEPT ![p] = "ck_lock"]
           ELSE /\ loc' = [loc EXCEPT ![p].derr = out.err]
                /\ pc' = [pc EXCEPT ![p] = "ck_rollback"]
    /\ UNCHANGED <<backend, password, keys, accounts, addressToKey, keyDir,
                   vaultKeys, rotated, mu, nextKey, req, res, created>>

\* the ways the compensation of CreateKey can go: the config write fails
\* (no Delete is sent), the Delete fails, or the key is deleted
RollbackOutcomes == {"configFailed", "deleteFailed", "deleted"}

\* fmt.Errorf("failed to get address for new key: %w", err) as the result
\* of CreateKey
DerivationFailure(err) ==
    [CreateKeyError(Errorf("failed to get address for new key", err.text))
        EXCEPT !.errKeyName = err.keyName]

\* a rollback that returns the error of the compensation when it failed
CK_Rollback_MaskedError(p) ==
    /\ pc[p] = "ck_rollback"
    /\ \/ /\ loc' = [loc EXCEPT ![p].rollback = "configFailed"]
          /\ Return(p, CreateKeyError(Errorf("failed to delete key in vault",
                                              LibraryError("vault"))))
       \/ /\ pc' = [pc EXCEPT ![p] = "ck_delete"]
          /\ UNCHANGED <<loc, res>>
    /\ UNCHANGED <<backend, password, keys, accounts, addressToKey, keyDir,
                   vaultKeys, rotated, mu, nextKey, req, created>>

\* rollback of CreateKey, first call: Write(keys/<keyName>/config,
\* deletion_allowed).  If it fails no Delete is sent and CreateKey returns
\* the error of getAddressForKey, wrapped.
CK_Rollback(p) ==
    /\ pc[p] = "ck_rollback"
    /\ \/ /\ loc' = [loc EXCEPT ![p].rollback = "configFailed"]
          /\ Return(p, DerivationFailure(loc[p].derr))
       \/ /\ pc' = [pc EXCEPT ![p] = "ck_delete"]
          /\ UNCHANGED <<loc, res>>
    /\ UNCHANGED <<backend, password, keys, accounts, addressToKey, keyDir,
                   vaultKeys, rotated, mu, nextKey, req, created>>

\* rollback of CreateKey, second call: Delete(keys/<keyName>), whose result
\* is dropped.  The error returned is the one of getAddressForKey, wrapped.
CK_RollbackDelete(p) ==
    /\ pc[p] = "ck_delete"
    /\ \E outcome \in RollbackOutcomes \ {"configFailed"} :
         /\ loc' = [loc EXCEPT ![p].rollback = outcome]
         /\ IF outcome = "deleted" /\ loc[p].keyName.id \in DOMAIN vaultKeys
            THEN vaultKeys' = [i \in DOMAIN vaultKeys \ {loc[p].keyName.id} |->
                                 vaultKeys[i]]
            ELSE UNCHANGED vaultKeys
         /\ rotated' = IF outcome = "deleted"
                       THEN rotated \ {loc[p].keyName.id} ELSE rotated
    /\ Return(p, DerivationFailure(loc[p].derr))
    /\ UNCHANGED <<backend, password, keys, accounts, addressToKey, keyDir,
                   mu, nextKey, req, created>>

\* km.mu.Lock()
CK_Lock(p) ==
    /\ pc[p] = "ck_lock"
    /\ CanLock(mu)
    /\ mu' = [mu EXCEPT !.writer = p]
    /\ pc' = [pc EXCEPT ![p] = "ck_assign"]
    /\ UNCHANGED <<backend, password, keys, accounts, addressToKey, keyDir,
                   vaultKeys, rotated, nextKey, req, loc, res, created>>

\* an insertion that builds the map anew around the new entry
CK_MapAssign_Replacing(p) ==
    /\ pc[p] = "ck_assign"
    /\ CASE backend = "Local" ->
              /\ accounts' = {loc[p].address}
              /\ UNCHANGED <<keys, addressToKey>>
         [] backend = "LocalUnlocked" ->
              /\ keys' = [a \in {loc[p].address} |-> loc[p].privateKey]
              /\ UNCHANGED <<accounts, addressToKey>>
         [] OTHER ->
              /\ addressToKey' = [a \in {loc[p].address} |-> EmptyKeyName]
              /\ UNCHANGED <<accounts, keys>>
    /\ pc' = [pc EXCEPT ![p] = "ck_store"]
    /\ UNCHANGED <<backend, password, keyDir, vaultKeys, rotated, mu, nextKey, req, loc,
                   res, created>>

\* the map assignment km.accounts[address] = struct{}{} /
\* km.keys[address] = privateKey / km.addressToKey[address] = keyName.  For
\* the string-valued map the two halves of the runtime's mapassign are two
\* steps: here the slot of the key is found or made, a new slot holding the
\* zero value.
CK_MapAssign(p) ==
    /\ pc[p] = "ck_assign"
    /\ CASE backend = "Local" ->
              /\ accounts' = accounts \cup {loc[p].address}
              /\ UNCHANGED <<keys, addressToKey>>
         [] backend = "LocalUnlocked" ->
              /\ keys' = [a \in DOMAIN keys \cup {loc[p].address} |->
                            IF a = loc[p].address THEN loc[p].privateKey
                            ELSE keys[a]]
              /\ UNCHANGED <<accounts, addressToKey>>
         [] OTHER ->
              /\ addressToKey' =
                   [a \in DOMAIN addressToKey \cup {loc[p].address} |->
                      IF a \in DOMAIN addressToKey THEN addressToKey[a]
                      ELSE EmptyKeyName]
              /\ UNCHANGED <<accounts, keys>>
    /\ pc' = [pc EXCEPT ![p] = "ck_store"]
    /\ UNCHANGED <<backend, password, keyDir, vaultKeys, rotated, mu, nextKey, req, loc,
                   res, created>>

\* a CreateKey that can still fail once the entry is in the map
CK_StoreUnlock_LateError(p) ==
    /\ pc[p] = "ck_store"
    /\ IF backend = "Remote"
       THEN addressToKey' =
              [addressToKey EXCEPT ![loc[p].address] = loc[p].keyName]
       ELSE UNCHANGED addressToKey
    /\ mu' = [mu EXCEPT !.writer = IF @ = p THEN 0 ELSE @]
    /\ \/ /\ created' = Append(created, [addr |-> loc[p].address,
                                           begun |-> req[p].begun])
          /\ Return(p, [NoRes EXCEPT !.op = "CreateKey",
                                     !.address = loc[p].address,
                                     !.secret = loc[p].password])
       \/ /\ UNCHANGED created
          /\ Return(p, CreateKeyError("failed to record new key"))
    /\ UNCHANGED <<backend, password, keys, accounts, keyDir, vaultKeys, rotated,
                   nextKey, req, loc>>

\* the map assignment, second half (the value is stored in the slot), the
\* log line, the deferred km.mu.Unlock() and the return: the address, and
\* the password generated for it if the key manager made one
CK_StoreUnlock(p) ==
    /\ pc[p] = "ck_store"
    /\ IF backend = "Remote"
       THEN addressToKey' =
              [addressToKey EXCEPT ![loc[p].address] = loc[p].keyName]
       ELSE UNCHANGED addressToKey
    /\ mu' = [mu EXCEPT !.writer = IF @ = p THEN 0 ELSE @]
    /\ created' = Append(created, [addr |-> loc[p].address,
                                   begun |-> req[p].begun])
    /\ Return(p, [NoRes EXCEPT !.op = "CreateKey",
                               !.address = loc[p].address,
                               !.secret = loc[p].password])
    /\ UNCHANGED <<backend, password, keys, accounts, keyDir, vaultKeys, rotated,
                   nextKey, req, loc>>

----------------------------------------------------------------------------
(* Signing: VaultKeyManager *)

\* the error result of a sign call: nil transaction / nil signature
SignError(op, e) == [NoRes EXCEPT !.op = op, !.err = e]

\* the core operation a sign route leads to
SignOp(route) == IF route = "/sign-transaction" THEN "SignTx" ELSE "SignMessage"

\* getKeyName: km.mu.RLock()
GK_RLock(p) ==
    /\ pc[p] = "gk_rlock"
    /\ CanRLock(mu)
    /\ mu' = [mu EXCEPT !.readers = @ \cup {p}]
    /\ pc' = [pc EXCEPT ![p] = "gk_read"]
    /\ UNCHANGED <<backend, password, keys, accounts, addressToKey, keyDir,
                   vaultKeys, rotated, nextKey, req, loc, res, created>>

\* a lookup that takes the entry it has read out of the map
GK_Read_Taking(p) ==
    /\ pc[p] = "gk_read"
    /\ mu' = [mu EXCEPT !.readers = @ \ {p}]
    /\ IF req[p].from \in DOMAIN addressToKey
       THEN /\ loc' = [loc EXCEPT ![p].keyName = addressToKey[req[p].from]]
            /\ addressToKey' = [a \in DOMAIN addressToKey \ {req[p].from} |->
                                  addressToKey[a]]
            /\ pc' = [pc EXCEPT ![p] = "sv_sign"]
            /\ UNCHANGED res
       ELSE /\ Return(p, SignError(SignOp(req[p].route),
                       "account not found or not managed by this signer: %s"))
            /\ UNCHANGED <<loc, addressToKey>>
    /\ UNCHANGED <<backend, password, keys, accounts, keyDir, vaultKeys, rotated,
                   nextKey, req, created>>

\* getKeyName: keyName, ok := km.addressToKey[address], deferred RUnlock;
\* an address without entry ends the sign call with the error
GK_Read(p) ==
    /\ pc[p] = "gk_read"
    /\ mu' = [mu EXCEPT !.readers = @ \ {p}]
    /\ IF req[p].from \in DOMAIN addressToKey
       THEN /\ loc' = [loc EXCEPT ![p].keyName = addressToKey[req[p].from]]
            /\ pc' = [pc EXCEPT ![p] = "sv_sign"]
            /\ UNCHANGED res
       ELSE /\ Return(p, SignError(SignOp(req[p].route),
                       "account not found or not managed by this signer: %s"))
            /\ UNCHANGED loc
    /\ UNCHANGED <<backend, password, keys, accounts, addressToKey, keyDir,
                   vaultKeys, rotated, nextKey, req, created>>

\* a recoverV that returns the first candidate whose recovery succeeds,
\* without comparing the recovered address
recoverV_FirstRecovered(rs, hash, expectedAddress) ==
    IF Ecrecover(hash, rs, 0).ok THEN [err |-> "", v |-> 0]
    ELSE IF Ecrecover(hash, rs, 1).ok THEN [err |-> "", v |-> 1]
    ELSE [err |-> "could not recover public key for the given signature",
          v |-> 0]

\* recoverV: for i = 0, 1: recover the public key from (hash, rs, i), skip
\* the candidate if recovery fails, return i if the recovered address is
\* the expected one; an error after both candidates
recoverV(rs, hash, expectedAddress) ==
    LET match(i) == LET r == Ecrecover(hash, rs, i)
                    IN  r.ok /\ PubkeyToAddress(r.pub) = expectedAddress
    IN  IF match(0) THEN [err |-> "", v |-> 0]
        ELSE IF match(1) THEN [err |-> "", v |-> 1]
        ELSE [err |-> "could not recover public key for the given signature",
              v |-> 0]

\* the hash VaultKeyManager.SignTx submits: types.NewEIP155Signer(chainID).Hash(tx)
VaultTxHash(tx, chainID) == EIP155Hash(tx, chainID)

\* VaultKeyManager.SignTx after signWithVault returned rs
VaultFinishSignTx(tx, chainID, from, rs) ==
    LET hash == VaultTxHash(tx, chainID)
        rv   == recoverV(rs, hash, from)
        ws   == WithSignature(tx, chainID,
                              EIP155SignatureValues(tx, chainID, rv.v), rs)
    IN  IF rv.err # "" THEN SignError("SignTx", rv.err)
        ELSE IF ws.err # "" THEN SignError("SignTx", ws.err)
        ELSE [NoRes EXCEPT !.op = "SignTx", !.signedTx = ws.tx]

\* VaultKeyManager.SignMessage after signWithVault returned rs:
\* signature = append(signature, v)
VaultFinishSignMessage(message, from, rs) ==
    LET hash == PrefixedMessageHash(message)
        rv   == recoverV(rs, hash, from)
    IN  IF rv.err # "" THEN SignError("SignMessage", rv.err)
        ELSE [NoRes EXCEPT !.op = "SignMessage",
                           !.signature = [rs |-> rs, v |-> rv.v, len |-> 64 + 1]]

\* what the transit engine can answer to sign/<keyName>/sha2-256 for a key it
\* holds: the signature of the submitted hash, the signature of the
\* sha2-256 digest of the submitted bytes, or bytes that are no signature
VaultSignatures(k, hash) ==
    {SignatureRS(k, hash, par) : par \in {0, 1}}
        \cup {SignatureRS(k, Sha256Of(hash), 0), MalformedRS(hash)}

\* the answers of the transit engine a specification tries
TriedSignatures(k, hash, D) ==
    {rs \in VaultSignatures(k, hash) :
        /\ rs.par \in D.parities
        /\ (rs.valid /\ rs.h = hash) \/ D.faults}

\* one '+'-separated chunk of the third part of the signature string:
\* whether base64.RawURLEncoding decodes it, and to how many bytes
Chunk(decodes, len) == [decodes |-> decodes, len |-> len]

\* a response of the transit engine as signWithVault takes it apart: nil or
\* not, with or without a string under "signature", the number of
\* ':'-separated parts of that string, the chunks of the third part, and
\* the curve values rs the chunks stand for
VaultResponse(colonParts, chunks, rs) ==
    [nil |-> FALSE, hasSignature |-> TRUE, colonParts |-> colonParts,
     chunks |-> chunks, rs |-> rs]

\* Logical().Write returned (nil, nil) to the request to sign hash
NilResponse(hash) ==
    [nil |-> TRUE, hasSignature |-> FALSE, colonParts |-> 0, chunks |-> <<>>,
     rs |-> MalformedRS(hash)]

\* a response whose Data has no string under "signature"
NoSignatureResponse(hash) ==
    [nil |-> FALSE, hasSignature |-> FALSE, colonParts |-> 0, chunks |-> <<>>,
     rs |-> MalformedRS(hash)]

\* the responses that carry rs as "vault:v1:<r>+<s>", r and s of 32 bytes,
\* or of 31 when their leading bytes are zero
WellFormedResponses(rs) ==
    {VaultResponse(3, <<Chunk(TRUE, n), Chunk(TRUE, n)>>, rs) : n \in {31, 32}}

\* responses that are no such string: no response, no signature, a string
\* of two parts, a third part without '+' (the transit engine's own format
\* "vault:v1:<base64>"), chunks that are no base64, r or s of 33 bytes
IllFormedResponses(hash) ==
    {NilResponse(hash), NoSignatureResponse(hash),
     VaultResponse(2, <<>>, MalformedRS(hash)),
     VaultResponse(3, <<Chunk(TRUE, 70)>>, MalformedRS(hash)),
     VaultResponse(3, <<Chunk(FALSE, 0), Chunk(TRUE, 32)>>, MalformedRS(hash)),
     VaultResponse(3, <<Chunk(TRUE, 32), Chunk(FALSE, 0)>>, MalformedRS(hash)),
     VaultResponse(3, <<Chunk(TRUE, 33), Chunk(TRUE, 32)>>, MalformedRS(hash)),
     VaultResponse(3, <<Chunk(TRUE, 32), Chunk(TRUE, 33)>>, MalformedRS(hash))}

\* signWithVault has no bytes to return
NoBytes(e) == [err |-> e, rs |-> MalformedRS(NoHash), len |-> 0]

\* signWithVault after the Write has returned resp without error: the
\* checks and the slice operations in the order of the code
signWithVault(resp) ==
    IF resp.nil THEN NoBytes(NilResponsePanic)
    ELSE IF ~resp.hasSignature
    THEN NoBytes("signature not found in vault response")
    ELSE IF resp.colonParts < 3
    THEN NoBytes("invalid signature format from vault: %s")
    ELSE IF ~resp.chunks[1].decodes
    THEN NoBytes(Errorf("failed to decode r part of signature",
                        LibraryError("base64")))
    ELSE IF Len(resp.chunks) < 2 THEN NoBytes(IndexPanic)
    ELSE IF ~resp.chunks[2].decodes
    THEN NoBytes(Errorf("failed to decode s part of signature",
                        LibraryError("base64")))
    ELSE IF resp.chunks[1].len > 32 \/ resp.chunks[2].len > 32
    THEN NoBytes(SliceBoundsPanic)
    ELSE [err |-> "", rs |-> resp.rs, len |-> 32 + 32]

\* the responses of the transit engine a specification tries for a key it
\* holds
TriedResponses(k, hash, D) ==
    UNION {WellFormedResponses(rs) : rs \in TriedSignatures(k, hash, D)}
        \cup (IF D.faults THEN IllFormedResponses(hash) ELSE {})

\* signWithVault and the rest of SignTx / SignMessage: one call of the
\* backend; its failure (wrapped by signWithVault) and the errors of
\* signWithVault are wrapped with %w, a panic unwinds the call, the bytes
\* returned go through recoverV
SV_SignWithVault(p, D) ==
    /\ pc[p] = "sv_sign"
    /\ LET isTx == req[p].route = "/sign-transaction"
           hash == IF isTx THEN VaultTxHash(req[p].tx, req[p].chainId)
                   ELSE PrefixedMessageHash(req[p].message)
           wrapped == IF isTx THEN "failed to sign transaction with vault"
                      ELSE "failed to sign message with vault"
       IN  \/ /\ loc' = [loc EXCEPT ![p].hashed = TRUE,
                                    ![p].hash = hash,
                                    ![p].signCalls = @ + 1]
              /\ Return(p, SignError(SignOp(req[p].route),
                       Errorf(wrapped, Errorf("failed to sign with vault",
                                              LibraryError("vault")))))
           \/ /\ loc[p].keyName.id \in DOMAIN vaultKeys
              /\ \E resp \in TriedResponses(vaultKeys[loc[p].keyName.id],
                                             hash, D) :
                   LET out == signWithVault(resp) IN
                     IF out.err # ""
                     THEN /\ loc' = [loc EXCEPT ![p].hashed = TRUE,
                                                ![p].hash = hash,
                                                ![p].signCalls = @ + 1]
                          /\ Return(p, SignError(SignOp(req[p].route),
                                   IF out.err \in Panics THEN out.err
                                   ELSE Errorf(wrapped, out.err)))
                     ELSE /\ loc' = [loc EXCEPT ![p].hashed = TRUE,
                                                ![p].hash = hash,
                                                ![p].signCalls = @ + 1,
                                                ![p].answered = TRUE,
                                                ![p].rs = out.rs,
                                                ![p].rsLen = out.len,
                                                ![p].rv = recoverV(out.rs, hash,
                                                                   req[p].from)]
                          /\ Return(p, IF isTx
                                       THEN VaultFinishSignTx(req[p].tx,
                                                req[p].chainId, req[p].from,
                                                out.rs)
                                       ELSE VaultFinishSignMessage(
                                                req[p].message, req[p].from,
                                                out.rs))
    /\ UNCHANGED <<backend, password, keys, accounts, addressToKey, keyDir,
                   vaultKeys, rotated, mu, nextKey, req, created>>

----------------------------------------------------------------------------
(* Signing: the two LocalKeyManagers *)

\* a decryption that accepts every password for a complete key file
getPrivateKey_AnyPassword(files, address, secret) ==
    IF address \notin DOMAIN files
    THEN [err |-> Errorf("failed to read key file for address %s",
                         LibraryError("os")),
          priv |-> 0]
    ELSE IF files[address] = TruncatedFile
    THEN [err |-> Errorf("failed to decrypt key for address %s",
                         LibraryError("keystore")),
          priv |-> 0]
    ELSE [err |-> "", priv |-> files[address].priv]

\* getPrivateKey(address, password): read keyDir/<address>.json, decrypt it
\* with the password of the request
getPrivateKey(files, address, secret) ==
    IF address \notin DOMAIN files
    THEN [err |-> Errorf("failed to read key file for address %s",
                         LibraryError("os")),
          priv |-> 0]
    ELSE IF files[address].password # secret
    THEN [err |-> Errorf("failed to decrypt key for address %s",
                         LibraryError("keystore")),
          priv |-> 0]
    ELSE [err |-> "", priv |-> files[address].priv]

\* the hash types.SignTx signs: types.NewPragueSigner(chainID).Hash(tx)
LocalTxHash(tx, chainID) == PragueHash(tx, chainID)

\* types.SignTx(tx, types.NewPragueSigner(chainID), privateKey), the
\* recovery id par being the one crypto.Sign returns
LocalFinishSignTx(tx, chainID, priv, par) ==
    LET rs == SignatureRS(priv, LocalTxHash(tx, chainID), par)
        ws == WithSignature(tx, chainID,
                            PragueSignatureValues(tx, chainID, par), rs)
    IN  IF ws.err # ""
        THEN SignError("SignTx", Errorf("failed to sign transaction", ws.err))
        ELSE [NoRes EXCEPT !.op = "SignTx", !.signedTx = ws.tx]

\* LocalKeyManager.SignMessage once it has the key: crypto.Sign, then
\* signature[64] += 27 (byte arithmetic)
LocalFinishSignMessage(message, priv, par) ==
    LET rs == SignatureRS(priv, PrefixedMessageHash(message), par)
    IN  [NoRes EXCEPT !.op = "SignMessage",
                      !.signature = [rs |-> rs, v |-> (par + 27) % 256,
                                     len |-> 64 + 1]]

\* SignTx / SignMessage of either LocalKeyManager once it has the private
\* key priv.  The go-ethereum release is not pinned by the sources: with
\* chain id zero types.NewPragueSigner either panics or builds a signer
\* whose legacy V is 27/28, and both outcomes are kept.
LocalSignWith(p, priv, D) ==
    LET isTx == req[p].route = "/sign-transaction"
        hash == IF isTx THEN LocalTxHash(req[p].tx, req[p].chainId)
                ELSE PrefixedMessageHash(req[p].message)
    IN  \/ /\ isTx /\ req[p].chainId <= 0
           /\ Return(p, SignError("SignTx", InvalidChainIdPanic))
           /\ UNCHANGED loc
        \/ \E par \in D.parities :
             /\ loc' = [loc EXCEPT ![p].hashed = TRUE,
                                   ![p].hash = hash,
                                   ![p].answered = TRUE,
                                   ![p].rs = SignatureRS(priv, hash, par),
                                   ![p].rsLen = 64]
             /\ Return(p, IF isTx
                          THEN LocalFinishSignTx(req[p].tx, req[p].chainId,
                                                 priv, par)
                          ELSE LocalFinishSignMessage(req[p].message, priv,
                                                      par))

\* LocalKeyManager.SignTx / SignMessage: no lock is taken, the key comes
\* from the key file as it is on disk when the call reads it; the error of
\* getPrivateKey is returned as it is
LS_Sign(p, D) ==
    /\ pc[p] = "ls_sign"
    /\ LET key == getPrivateKey(keyDir, req[p].from, req[p].secret) IN
         IF key.err # ""
         THEN /\ Return(p, SignError(SignOp(req[p].route), key.err))
              /\ UNCHANGED loc
         ELSE LocalSignWith(p, key.priv, D)
    /\ UNCHANGED <<backend, password, keys, accounts, addressToKey, keyDir,
                   vaultKeys, rotated, mu, nextKey, req, created>>

\* the earlier LocalKeyManager.SignTx / SignMessage: km.mu.RLock()
LU_RLock(p) ==
    /\ pc[p] = "lu_rlock"
    /\ CanRLock(mu)
    /\ mu' = [mu EXCEPT !.readers = @ \cup {p}]
    /\ pc' = [pc EXCEPT ![p] = "lu_read"]
    /\ UNCHANGED <<backend, password, keys, accounts, addressToKey, keyDir,
                   vaultKeys, rotated, nextKey, req, loc, res, created>>

\* privateKey, ok := km.keys[address]; km.mu.RUnlock(); an address without
\* entry ends the sign call with the error
LU_Read(p) ==
    /\ pc[p] = "lu_read"
    /\ mu' = [mu EXCEPT !.readers = @ \ {p}]
    /\ IF req[p].from \in DOMAIN keys
       THEN /\ loc' = [loc EXCEPT ![p].privateKey = keys[req[p].from]]
            /\ pc' = [pc EXCEPT ![p] = "lu_sign"]
            /\ UNCHANGED res
       ELSE /\ Return(p, SignError(SignOp(req[p].route),
                                   "account not found: %s"))
            /\ UNCHANGED loc
    /\ UNCHANGED <<backend, password, keys, accounts, addressToKey, keyDir,
                   vaultKeys, rotated, nextKey, req, created>>

\* the rest of the earlier SignTx / SignMessage: the signature is made with
\* the key the lookup returned
LU_Sign(p, D) ==
    /\ pc[p] = "lu_sign"
    /\ LocalSignWith(p, loc[p].privateKey, D)
    /\ UNCHANGED <<backend, password, keys, accounts, addressToKey, keyDir,
                   vaultKeys, rotated, mu, nextKey, req, created>>

----------------------------------------------------------------------------
(* The earlier program: the Vault-only KeyManager and its Signer.  Its
   CreateKey, GetAccounts, GetKeyName and loadExistingKeys take the steps of
   the VaultKeyManager; its signing is the Signer's. *)

\* NewKeyManager on a transit engine that holds n keys, those in rot
\* rotated, the Read of key i being answered with answers[i]
NewKeyManager(n, rot, answers) ==
    /\ nextKey = n + 1
    /\ vaultKeys = [i \in 0..(n - 1) |-> i + 1]
    /\ rotated = rot
    /\ addressToKey =
         LoadExistingKeys([i \in 0..(n - 1) |->
                             KeyManager_getAddressForKey(KeyNameOf(i),
                                                         answers[i])])
    /\ keyDir = << >>
    /\ accounts = {}
    /\ password = NoSecret
    /\ keys = << >>

\* deriveChainId of V = 0, the V of a legacy transaction that carries no
\* signature: (0 - 35) / 2 in 64-bit unsigned arithmetic, in decimal
DerivedChainId == "9223372036854775790"

\* tx.ChainId() of an unsigned transaction
TxChainId(tx) == IF tx.type = "Legacy" THEN DerivedChainId ELSE tx.chainId

\* V of EIP155Signer.SignatureValues for the chain id DerivedChainId:
\* recid + 35 + 2 * chainId, in decimal
DerivedV(recid) ==
    IF recid = 0 THEN "18446744073709551615" ELSE "18446744073709551616"

\* a response "vault:v1:<base64url>" whose third part decodes to len bytes
\* that stand for rs
JwsResponse(rs, len) == VaultResponse(3, <<Chunk(TRUE, len)>>, rs)

\* SignWithVault after the Write has returned resp without error: three
\* ':'-separated parts, the third decoded as a whole by
\* base64.RawURLEncoding (which has no '+'), 64 bytes demanded
SignWithVault(resp) ==
    IF resp.nil THEN NoBytes(NilResponsePanic)
    ELSE IF ~resp.hasSignature
    THEN NoBytes("signature not found in vault response")
    ELSE IF resp.colonParts # 3
    THEN NoBytes("invalid signature format from vault")
    ELSE IF Len(resp.chunks) # 1 \/ ~resp.chunks[1].decodes
    THEN NoBytes(Errorf("failed to decode signature",
                        LibraryError("base64")))
    ELSE IF resp.chunks[1].len # 64
    THEN NoBytes("expected 64-byte signature from vault, got %d")
    ELSE [err |-> "", rs |-> resp.rs, len |-> 64]

\* the responses of the transit engine tried against SignWithVault for a
\* key it holds
SignerTriedResponses(k, hash, D) ==
    {JwsResponse(rs, 64) : rs \in TriedSignatures(k, hash, D)}
        \cup (IF D.faults
              THEN IllFormedResponses(hash)
                     \cup WellFormedResponses(SignatureRS(k, hash, 0))
              ELSE {})

\* Signer.recoverV: for i = 0, 1: recover the public key from (hash, rs, i),
\* skip the candidate if recovery fails, return i if the recovered address
\* is from; an error after both candidates
SignerRecoverV(hash, rsSignature, from) ==
    LET match(i) == LET r == Ecrecover(hash, rsSignature, i)
                    IN  r.ok /\ PubkeyToAddress(r.pub) = from
    IN  IF match(0) THEN [err |-> "", v |-> 0]
        ELSE IF match(1) THEN [err |-> "", v |-> 1]
        ELSE [err |-> "could not find a valid recovery ID for the signature",
              v |-> 0]

\* Signer.SignTransaction after SignWithVault returned rs: the signer is the
\* EIP155 signer of tx.ChainId(), which applies to legacy transactions only
SignTransaction(from, tx, rs) ==
    LET hash == EIP155Hash(tx, TxChainId(tx))
        rv   == SignerRecoverV(hash, rs, from)
    IN  IF rv.err # ""
        THEN SignError("SignTx",
                       Errorf("failed to recover signature 'v' value", rv.err))
        ELSE IF tx.type # "Legacy"
        THEN SignError("SignTx",
                       Errorf("failed to apply signature to transaction",
                              "ErrTxTypeNotSupported"))
        ELSE [NoRes EXCEPT !.op = "SignTx",
                           !.signedTx = [type |-> tx.type, body |-> tx,
                                         v |-> DerivedV(rv.v), rs |-> rs]]

\* Signer.SignMessage after SignWithVault returned rs:
\* finalSignature[64] = v + 27
SignMessage(from, message, rs) ==
    LET hash == PrefixedMessageHash(message)
        rv   == SignerRecoverV(hash, rs, from)
    IN  IF rv.err # ""
        THEN SignError("SignMessage",
                       Errorf("failed to recover signature 'v' value", rv.err))
        ELSE [NoRes EXCEPT !.op = "SignMessage",
                           !.signature = [rs |-> rs, v |-> rv.v + 27,
                                          len |-> 65]]

\* Signer.SignTransaction / SignMessage from the call of SignWithVault on:
\* one call of the backend; its failure and the errors of SignWithVault are
\* wrapped, a panic unwinds the call, the bytes returned go through recoverV
Signer_SignWithVault(p, D) ==
    /\ pc[p] = "sv_sign"
    /\ LET isTx == req[p].route = "/sign-transaction"
           hash == IF isTx THEN EIP155Hash(req[p].tx, TxChainId(req[p].tx))
                   ELSE PrefixedMessageHash(req[p].message)
           wrapped == IF isTx THEN "failed to sign transaction hash with vault"
                      ELSE "failed to sign message hash with vault"
       IN  \/ /\ loc' = [loc EXCEPT ![p].hashed = TRUE,
                                    ![p].hash = hash,
                                    ![p].signCalls = @ + 1]
              /\ Return(p, SignError(SignOp(req[p].route),
                       Errorf(wrapped, Errorf("failed to sign with vault",
                                              LibraryError("vault")))))
           \/ /\ loc[p].keyName.id \in DOMAIN vaultKeys
              /\ \E resp \in SignerTriedResponses(vaultKeys[loc[p].keyName.id],
                                                   hash, D) :
                   LET out == SignWithVault(resp) IN
                     IF out.err # ""
                     THEN /\ loc' = [loc EXCEPT ![p].hashed = TRUE,
                                                ![p].hash = hash,
                                                ![p].signCalls = @ + 1]
                          /\ Return(p, SignError(SignOp(req[p].route),
                                   IF out.err \in Panics THEN out.err
                                   ELSE Errorf(wrapped, out.err)))
                     ELSE /\ loc' = [loc EXCEPT ![p].hashed = TRUE,
                                                ![p].hash = hash,
                                                ![p].signCalls = @ + 1,
                                                ![p].answered = TRUE,
                                                ![p].rs = out.rs,
                                                ![p].rsLen = out.len,
                                                ![p].rv = SignerRecoverV(hash,
                                                            out.rs, req[p].from)]
                          /\ Return(p, IF isTx
                                       THEN SignTransaction(req[p].from,
                                                            req[p].tx, out.rs)
                                       ELSE SignMessage(req[p].from,
                                                        req[p].message, out.rs))
    /\ UNCHANGED <<backend, password, keys, accounts, addressToKey, keyDir,
                   vaultKeys, rotated, mu, nextKey, req, created>>

----------------------------------------------------------------------------
(* HTTP boundary: cmd/signer/main.go, internal/handler, auth middleware *)

\* maxTimeSkew of the auth middleware, in seconds
maxTimeSkew == 60

\* the second time.Now().Unix() returns while the requests are served
ServerNow == 1000

\* cfg.Auth.APIKey and cfg.Auth.APISecret of the server
ServerApiKey == "api-key"
ServerApiSecret == "api-secret"

\* one character of a header string
Ch(c) == [ch |-> c]

DigitChars == <<"0", "1", "2", "3", "4", "5", "6", "7", "8", "9">>

IsDigit(c) == \E i \in 1..10 : c = Ch(DigitChars[i])

DigitValue(c) == (CHOOSE i \in 1..10 : c = Ch(DigitChars[i])) - 1

\* An integer of the program is held as a sign and the decimal digits of
\* its magnitude, most significant first and without leading zeros (none
\* for zero), so that the 64-bit values of the code keep their width.

RECURSIVE StripZeros(_)
StripZeros(d) == IF Len(d) > 0 /\ d[1] = 0 THEN StripZeros(Tail(d)) ELSE d

\* the digits d written with n places
Pad(d, n) ==
    [i \in 1..n |-> IF i <= n - Len(d) THEN 0 ELSE d[i - (n - Len(d))]]

\* magnitude a is smaller than magnitude b
MagLess(a, b) ==
    \/ Len(a) < Len(b)
    \/ /\ Len(a) = Len(b)
       /\ \E i \in 1..Len(a) :
            /\ a[i] < b[i]
            /\ \A j \in 1..(i - 1) : a[j] = b[j]

\* a + b + carry for digit sequences of one length
RECURSIVE AddDigits(_, _, _)
AddDigits(a, b, carry) ==
    IF Len(a) = 0 THEN <<carry>>
    ELSE LET n == Len(a)
             d == a[n] + b[n] + carry
         IN  AddDigits(SubSeq(a, 1, n - 1), SubSeq(b, 1, n - 1), d \div 10)
               \o <<d % 10>>

\* a - b - borrow for digit sequences of one length, a not below b
RECURSIVE SubDigits(_, _, _)
SubDigits(a, b, borrow) ==
    IF Len(a) = 0 THEN << >>
    ELSE LET n == Len(a)
             d == a[n] - b[n] - borrow
         IN  SubDigits(SubSeq(a, 1, n - 1), SubSeq(b, 1, n - 1),
                       IF d < 0 THEN 1 ELSE 0)
               \o <<IF d < 0 THEN d + 10 ELSE d>>

\* the integer of the given sign and magnitude; zero has no sign
Big(neg, mag) == [neg |-> neg /\ mag # << >>, mag |-> mag]

RECURSIVE DigitsOf(_)
DigitsOf(n) == IF n = 0 THEN << >> ELSE DigitsOf(n \div 10) \o <<n % 10>>

\* a small integer of the model as an integer of the program
Int64(n) == IF n < 0 THEN Big(TRUE, DigitsOf(0 - n)) ELSE Big(FALSE, DigitsOf(n))

BigAdd(x, y) ==
    LET n == IF Len(x.mag) < Len(y.mag) THEN Len(y.mag) ELSE Len(x.mag)
        a == Pad(x.mag, n)
        b == Pad(y.mag, n)
    IN  IF x.neg = y.neg THEN Big(x.neg, StripZeros(AddDigits(a, b, 0)))
        ELSE IF MagLess(x.mag, y.mag)
        THEN Big(y.neg, StripZeros(SubDigits(b, a, 0)))
        ELSE Big(x.neg, StripZeros(SubDigits(a, b, 0)))

BigSub(x, y) == BigAdd(x, Big(~y.neg, y.mag))

BigLess(x, y) ==
    IF x.neg # y.neg THEN x.neg
    ELSE IF x.neg THEN MagLess(y.mag, x.mag)
    ELSE MagLess(x.mag, y.mag)

\* the largest and the smallest int64
MaxInt64 == Big(FALSE, <<9,2,2,3,3,7,2,0,3,6,8,5,4,7,7,5,8,0,7>>)
MinInt64 == Big(TRUE, <<9,2,2,3,3,7,2,0,3,6,8,5,4,7,7,5,8,0,8>>)

\* a - b of two int64 values: a difference outside int64 wraps by 2^64
Sub64(a, b) ==
    LET d == BigSub(a, b)
        twoTo64 == Big(FALSE, <<1,8,4,4,6,7,4,4,0,7,3,7,0,9,5,5,1,6,1,6>>)
    IN  IF BigLess(MaxInt64, d) THEN BigSub(d, twoTo64)
        ELSE IF BigLess(d, MinInt64) THEN BigAdd(d, twoTo64)
        ELSE d

\* strconv.FormatInt(n, 10): the decimal digits, a minus sign first for a
\* negative number
FormatInt(x) ==
    (IF x.neg THEN <<Ch("-")>> ELSE << >>)
      \o (IF x.mag = << >> THEN <<Ch("0")>>
          ELSE [i \in 1..Len(x.mag) |-> Ch(DigitChars[x.mag[i] + 1])])

\* strconv.ParseInt(s, 10, 64): an optional sign, then one digit or more,
\* of a value an int64 holds; a value out of that range is an error
ParseInt(str) ==
    LET signed == Len(str) > 0 /\ str[1] \in {Ch("-"), Ch("+")}
        digits == IF signed THEN Tail(str) ELSE str
    IN  IF Len(digits) = 0 \/ \E i \in 1..Len(digits) : ~IsDigit(digits[i])
        THEN [ok |-> FALSE, n |-> Int64(0)]
        ELSE LET n == Big(signed /\ str[1] = Ch("-"),
                          StripZeros([i \in 1..Len(digits) |->
                                        DigitValue(digits[i])]))
             IN  IF BigLess(MaxInt64, n) THEN [ok |-> FALSE, n |-> MaxInt64]
                 ELSE IF BigLess(n, MinInt64) THEN [ok |-> FALSE, n |-> MinInt64]
                 ELSE [ok |-> TRUE, n |-> n]

\* hmac.New(sha256.New, secret) over payload, and its hex encoding
HmacSha256(secret, payload) == [hmac |-> "sha256", key |-> secret, msg |-> payload]
HexEncode(mac) == [hex |-> mac]

\* a Client that signs its payload without the timestamp
calculateSignature_BodyOnly(apiSecret, timestamp, body) ==
    <<HexEncode(HmacSha256(apiSecret, body))>>

\* Client.calculateSignature: hex(HMAC-SHA256(apiSecret, timestamp + body)),
\* as the value of a header
calculateSignature(apiSecret, timestamp, body) ==
    <<HexEncode(HmacSha256(apiSecret, timestamp \o body))>>

\* Client.doRequest: the headers the SDK client sets for a body it sends at
\* the second sentAt of its clock
doRequest(client, sentAt, body) ==
    [apiKey |-> client.apiKey,
     timestamp |-> FormatInt(sentAt),
     signature |-> calculateSignature(client.apiSecret, FormatInt(sentAt),
                                      body)]

\* AuthMiddleware.Wrap: the request passes when the API key is the
\* configured one, the timestamp is present, parses, the int64 difference
\* time.Now().Unix() - timestamp is not above maxTimeSkew, and the
\* signature is present and equals the hex HMAC of timestamp + body under
\* the secret
AuthAccepts(h, body) ==
    /\ h.apiKey = ServerApiKey
    /\ h.timestamp # <<>>
    /\ ParseInt(h.timestamp).ok
    /\ ~BigLess(Int64(maxTimeSkew),
                Sub64(Int64(ServerNow), ParseInt(h.timestamp).n))
    /\ h.signature # <<>>
    /\ h.signature = <<HexEncode(HmacSha256(ServerApiSecret,
                                            h.timestamp \o body))>>

\* the routes main registers behind AuthMiddleware.Wrap: main builds the mux
\* from the bare handlers and wraps it in middleware.Logging only
AuthWrapped == {}

\* the routes the earlier main (the one that builds the Vault-only
\* KeyManager) registers behind authMiddleware.Wrap
EarlierAuthWrapped ==
    {"/accounts", "/create-account", "/sign-transaction", "/sign-message"}

\* middleware.Logging passes every request on to the handler it wraps
LoggingPasses(route) == TRUE

\* the SDK client configured with the key and secret of the server, and one
\* configured with another secret
SdkClient == [apiKey |-> ServerApiKey, apiSecret |-> ServerApiSecret]

\* the text of a header, character by character
Text(chars) == [i \in 1..Len(chars) |-> Ch(chars[i])]

\* timestamps at the ends of int64: the smallest int64, and the number one
\* above the largest
MinInt64Stamp ==
    Text(<<"-","9","2","2","3","3","7","2","0","3","6","8","5","4","7","7",
           "5","8","0","8">>)
AboveInt64Stamp ==
    Text(<<"9","2","2","3","3","7","2","0","3","6","8","5","4","7","7","5",
           "8","0","8">>)

\* who sends a request: the SDK client at a second of its clock, nobody in
\* particular (no headers), somebody who replays headers the SDK client
\* made for the empty body, somebody who sends a timestamp that is no
\* number, or a holder of the secret who sets the timestamp header directly
SdkSender(client, sentAt) ==
    [kind |-> "sdk", client |-> client, sentAt |-> sentAt, stamp |-> << >>]
AnonymousSender ==
    [kind |-> "anonymous", client |-> SdkClient, sentAt |-> 0, stamp |-> << >>]
ReplaySender(sentAt) ==
    [kind |-> "replay", client |-> SdkClient, sentAt |-> sentAt,
     stamp |-> << >>]
GarbledSender ==
    [kind |-> "stamped", client |-> SdkClient, sentAt |-> 0,
     stamp |-> Text(<<"n", "o", "w">>)]
StampedSender(stamp) ==
    [kind |-> "stamped", client |-> SdkClient, sentAt |-> 0, stamp |-> stamp]

\* the headers a request with the given body arrives with
HeadersOf(sender, body) ==
    CASE sender.kind = "sdk" ->
           doRequest(sender.client, Int64(sender.sentAt), body)
      [] sender.kind = "replay" ->
           doRequest(sender.client, Int64(sender.sentAt), <<>>)
      [] sender.kind = "stamped" ->
           [apiKey |-> sender.client.apiKey,
            timestamp |-> sender.stamp,
            signature |-> calculateSignature(sender.client.apiSecret,
                                             sender.stamp, body)]
      [] OTHER -> BareHeaders

\* the raw body of a request: the JSON document, or nothing
BodyBytes(doc) == <<doc>>

\* an absent or empty address string, and one that is no hex: FromHex drops
\* the error of hex.DecodeString and keeps the bytes decoded so far, none
EmptyHex == [text |-> "", addr |-> ZeroAddress]
GarbledHex == [text |-> "0xZZ", addr |-> ZeroAddress]

\* common.HexToAddress of the "from" / "to" string of a body: the decoded
\* bytes as an address, without any validation
HexToAddress(str) == str.addr

\* chainId strings of a body: empty, not a decimal number, or decimal
EmptyChainId == [text |-> "", n |-> Nil]
BadChainId == [text |-> "0x", n |-> Nil]
DecimalChainId(c) == [text |-> "decimal", n |-> c]

\* fee fields of a body: (gasPrice, gasFeeCap, gasTipCap), Nil when absent
FeeShapes ==
    {[gasPrice |-> 20, gasFeeCap |-> Nil, gasTipCap |-> Nil],
     [gasPrice |-> Nil, gasFeeCap |-> 30, gasTipCap |-> 2],
     [gasPrice |-> Nil, gasFeeCap |-> 30, gasTipCap |-> Nil],
     [gasPrice |-> Nil, gasFeeCap |-> Nil, gasTipCap |-> Nil]}

\* SignTxRequest bodies over the given field values
TxBodies(froms, secrets, chains, fees) ==
    {[from |-> HexOf(f), to |-> HexOf(Recipient), secret |-> s, nonce |-> 0,
      value |-> 10, data |-> <<>>, gasLimit |-> 21000,
      gasPrice |-> fee.gasPrice, gasFeeCap |-> fee.gasFeeCap,
      gasTipCap |-> fee.gasTipCap, chainId |-> c, json |-> TRUE] :
        f \in froms, s \in secrets, c \in chains, fee \in fees}

\* SignMessageRequest bodies over the given field values
MessageBodies(froms, secrets, messages) ==
    {[from |-> HexOf(f), secret |-> s, message |-> m, json |-> TRUE] :
        f \in froms, s \in secrets, m \in messages}

\* a body json.Decode rejects
BadJson == [json |-> FALSE]

\* bodies that are JSON but whose "from" is absent or no hex address, or
\* whose "to" is no hex address, all other fields as in a good request
IllFormedTxBodies ==
    {[b EXCEPT !.from = str] :
        b \in TxBodies({PubkeyToAddress(1)}, {PasswordOf(1)}, {DecimalChainId(1337)},
                       {fee \in FeeShapes : fee.gasPrice # Nil}),
        str \in {EmptyHex, GarbledHex}}
    \cup {[b EXCEPT !.to = GarbledHex] :
        b \in TxBodies({PubkeyToAddress(1)}, {PasswordOf(1)}, {DecimalChainId(1337)},
                       {fee \in FeeShapes : fee.gasPrice # Nil})}

IllFormedMessageBodies ==
    {[b EXCEPT !.from = str] :
        b \in MessageBodies({PubkeyToAddress(1)}, {PasswordOf(1)}, {<<72, 105>>}),
        str \in {EmptyHex, GarbledHex}}

\* the handler answers without calling the core
Reject(p, r, status) ==
    /\ req' = [req EXCEPT ![p] = r]
    /\ res' = [res EXCEPT ![p] = [NoRes EXCEPT !.status = status]]
    /\ pc' = [pc EXCEPT ![p] = "done"]

\* the handler calls the core operation that starts at position start
Call(p, r, start) ==
    /\ req' = [req EXCEPT ![p] = r]
    /\ pc' = [pc EXCEPT ![p] = start]
    /\ UNCHANGED res

\* a request as it reaches the mux; begun (history) counts the CreateKey
\* calls that had returned an address when a key or account request arrived
Arrival(route, method, sender, body) ==
    [NoReq EXCEPT !.route = route, !.method = method,
                  !.hdr = HeadersOf(sender, body),
                  !.body = body,
                  !.authed = AuthAccepts(HeadersOf(sender, body), body),
                  !.begun = IF route \in {"/accounts", "/create-account"}
                            THEN Len(created) ELSE 0]

\* whether the chain of main lets the request reach the route's handler
Reaches(r, wrapped) ==
    /\ LoggingPasses(r.route)
    /\ r.route \in wrapped => r.authed

\* GET /accounts: AccountsHandler.ServeHTTP
ServeAccounts(p, D) ==
    /\ pc[p] = "idle"
    /\ \E method \in D.methods, hdr \in D.headers :
         LET r == Arrival("/accounts", method, hdr, <<>>) IN
           IF ~Reaches(r, D.wrapped) THEN Reject(p, r, 401)
           ELSE IF method # "GET" THEN Reject(p, r, 405)
           ELSE Call(p, r, "ga_rlock")
    /\ UNCHANGED <<backend, password, keys, accounts, addressToKey, keyDir,
                   vaultKeys, rotated, mu, nextKey, loc, created>>

\* POST /create-account: CreateAccountHandler.ServeHTTP
ServeCreateAccount(p, D) ==
    /\ pc[p] = "idle"
    /\ Len(created) < D.maxKeys
    /\ \E method \in D.methods, hdr \in D.headers :
         LET r == Arrival("/create-account", method, hdr, <<>>) IN
           IF ~Reaches(r, D.wrapped) THEN Reject(p, r, 401)
           ELSE IF method # "POST" THEN Reject(p, r, 405)
           ELSE Call(p, r, "ck_backend")
    /\ UNCHANGED <<backend, password, keys, accounts, addressToKey, keyDir,
                   vaultKeys, rotated, mu, nextKey, loc, created>>

\* the first position of a sign call in the key manager: the Signer
\* forwards the call
SignStart ==
    CASE backend = "Local" -> "ls_sign"
      [] backend = "LocalUnlocked" -> "lu_rlock"
      [] OTHER -> "gk_rlock"

\* the transaction SignTxHandler builds from a body and the parsed chain id
BuildTx(body, chainID) ==
    LET toAddr == IF body.to.text = "" THEN NilAddress
                  ELSE HexToAddress(body.to) IN
      IF body.gasFeeCap # Nil /\ body.gasTipCap # Nil
      THEN NewDynamicFeeTx(chainID, body.nonce, body.gasFeeCap, body.gasTipCap,
                           body.gasLimit, toAddr, body.value, body.data)
      ELSE NewLegacyTx(body.nonce, body.gasPrice, body.gasLimit, toAddr,
                       body.value, body.data)

\* generatePassword draws 32 bytes from crypto/rand: the password of a key
\* pair the LocalKeyManager has yet to generate, or has generated in a
\* CreateKey call that has not returned, is in no request
Sendable(docs) ==
    LET UnknownPasswords ==
          IF backend = "Local"
          THEN ({PasswordOf(k) : k \in nextKey..MaxKeys}
                   \cup {loc[q].password :
                           q \in {r \in Procs :
                                    pc[r] \notin {"idle", "done"}}})
                 \ {NoSecret}
          ELSE {}
    IN  {b \in docs : b.secret \notin UnknownPasswords}

\* POST /sign-transaction: SignTxHandler.ServeHTTP
ServeSignTx(p, D) ==
    /\ pc[p] = "idle"
    /\ \E method \in D.methods, hdr \in D.headers,
          body \in Sendable(D.txBodies) \cup {BadJson} :
         LET r == Arrival("/sign-transaction", method, hdr, BodyBytes(body)) IN
           IF ~Reaches(r, D.wrapped) THEN Reject(p, r, 401)
           ELSE IF method # "POST" THEN Reject(p, r, 405)
           ELSE IF ~body.json THEN Reject(p, r, 400)
           ELSE IF body.secret = NoSecret THEN Reject(p, r, 400)
           ELSE IF body.chainId.text = "" THEN Reject(p, r, 400)
           ELSE IF body.chainId.n = Nil THEN Reject(p, r, 400)
           ELSE Call(p, [r EXCEPT !.from = HexToAddress(body.from),
                                  !.secret = body.secret,
                                  !.chainId = body.chainId.n,
                                  !.tx = BuildTx(body, body.chainId.n)],
                     SignStart)
    /\ UNCHANGED <<backend, password, keys, accounts, addressToKey, keyDir,
                   vaultKeys, rotated, mu, nextKey, loc, created>>

\* POST /sign-message: SignMessageHandler.ServeHTTP
ServeSignMessage(p, D) ==
    /\ pc[p] = "idle"
    /\ \E method \in D.methods, hdr \in D.headers,
          body \in Sendable(D.messageBodies) \cup {BadJson} :
         LET r == Arrival("/sign-message", method, hdr, BodyBytes(body)) IN
           IF ~Reaches(r, D.wrapped) THEN Reject(p, r, 401)
           ELSE IF method # "POST" THEN Reject(p, r, 405)
           ELSE IF ~body.json THEN Reject(p, r, 400)
           ELSE IF body.secret = NoSecret THEN Reject(p, r, 400)
           ELSE Call(p, [r EXCEPT !.from = HexToAddress(body.from),
                                  !.secret = body.secret,
                                  !.message = body.message],
                     SignStart)
    /\ UNCHANGED <<backend, password, keys, accounts, addressToKey, keyDir,
                   vaultKeys, rotated, mu, nextKey, loc, created>>

\* /health: HealthHandler.ServeHTTP answers 200 for every method
ServeHealth(p, D) ==
    /\ pc[p] = "idle"
    /\ \E method \in D.methods, hdr \in D.headers :
         Reject(p, Arrival("/health", method, hdr, <<>>), 200)
    /\ UNCHANGED <<backend, password, keys, accounts, addressToKey, keyDir,
                   vaultKeys, rotated, mu, nextKey, loc, created>>

\* the response is written and the goroutine of the request ends
Finish(p) ==
    /\ pc[p] = "done"
    /\ pc' = [pc EXCEPT ![p] = "idle"]
    /\ req' = [req EXCEPT ![p] = NoReq]
    /\ loc' = [loc EXCEPT ![p] = NoLoc]
    /\ res' = [res EXCEPT ![p] = NoRes]
    /\ UNCHANGED <<backend, password, keys, accounts, addressToKey, keyDir,
                   vaultKeys, rotated, mu, nextKey, created>>

----------------------------------------------------------------------------
(* Specifications *)

Passwords == {PasswordOf(k) : k \in Keys}

\* requests tried when one request is served at a time; the chain of main
\* reads none of the auth headers, the requests come without them
WideInputs ==
    [methods |-> {"GET", "POST"},
     headers |-> {AnonymousSender},
     wrapped |-> AuthWrapped,
     txBodies |-> TxBodies(AddressInputs, Passwords \cup {NoSecret},
                           {DecimalChainId(c) : c \in ChainIds}
                               \cup {EmptyChainId, BadChainId},
                           FeeShapes)
                     \cup IllFormedTxBodies,
     messageBodies |-> MessageBodies(AddressInputs, Passwords \cup {NoSecret},
                                     {<<>>, <<72, 105>>})
                          \cup IllFormedMessageBodies,
     parities |-> {0, 1},
     faults |-> TRUE,
     answers |-> AnswerShapes,
     maxKeys |-> MaxKeys]

\* the addresses sign requests name when requests are served concurrently:
\* those of the first two keys of the model; the second is unmanaged until
\* a CreateKey call makes it
NarrowAddresses == {PubkeyToAddress(1), PubkeyToAddress(2)}

\* requests tried when requests are served concurrently; two key pairs, so
\* that two creations can overlap
NarrowInputs ==
    [methods |-> {"GET", "POST"},
     headers |-> {AnonymousSender},
     wrapped |-> AuthWrapped,
     txBodies |-> TxBodies(NarrowAddresses, {PasswordOf(1)},
                           {DecimalChainId(1337)},
                           {fee \in FeeShapes : fee.gasPrice # Nil}),
     messageBodies |-> MessageBodies(NarrowAddresses, {PasswordOf(1)},
                                     {<<72, 105>>}),
     parities |-> {0},
     faults |-> FALSE,
     answers |-> {"error", "noPublicKey", "pemEcdsa"},
     maxKeys |-> 2]

\* one step of the request goroutine p, its request drawn from D
Step(p, D) ==
    \/ ServeAccounts(p, D)
    \/ ServeCreateAccount(p, D)
    \/ ServeSignTx(p, D)
    \/ ServeSignMessage(p, D)
    \/ ServeHealth(p, D)
    \/ GA_RLock(p)
    \/ GA_Range(p)
    \/ GA_RUnlock(p)
    \/ CK_LocalGenerate(p, D)
    \/ CK_UnlockedGenerate(p, D)
    \/ CK_WriteFileOpen(p)
    \/ CK_WriteFileData(p)
    \/ CK_VaultWrite(p, D)
    \/ CK_GetAddressForKey(p, D)
    \/ CK_Rollback(p)
    \/ CK_RollbackDelete(p)
    \/ CK_Lock(p)
    \/ CK_MapAssign(p)
    \/ CK_StoreUnlock(p)
    \/ GK_RLock(p)
    \/ GK_Read(p)
    \/ SV_SignWithVault(p, D)
    \/ LS_Sign(p, D)
    \/ LU_RLock(p)
    \/ LU_Read(p)
    \/ LU_Sign(p, D)
    \/ Finish(p)

\* requests served one after the other
Next == \E p \in {1} : Step(p, WideInputs)

Spec == Init /\ [][Next]_vars

\* requests served concurrently by the goroutines of Procs
ConcNext == \E p \in Procs : Step(p, NarrowInputs)

ConcSpec == Init /\ [][ConcNext]_vars

\* requests tried when the progress of concurrent requests is checked: one
\* sign request of each kind for the first key, one new key pair
LockInputs ==
    [methods |-> {"GET", "POST"},
     headers |-> {AnonymousSender},
     wrapped |-> AuthWrapped,
     txBodies |-> TxBodies({PubkeyToAddress(1)}, {PasswordOf(1)},
                           {DecimalChainId(1337)},
                           {fee \in FeeShapes : fee.gasPrice # Nil}),
     messageBodies |-> MessageBodies({PubkeyToAddress(1)}, {PasswordOf(1)},
                                     {<<72, 105>>}),
     parities |-> {0},
     faults |-> FALSE,
     answers |-> {"error", "noPublicKey", "pemEcdsa"},
     maxKeys |-> 1]

\* the steps of p inside an operation that wait for nothing: once the
\* goroutine is there, the scheduler runs it
Runs(p, D) ==
    \/ GA_Range(p)
    \/ GA_RUnlock(p)
    \/ CK_LocalGenerate(p, D)
    \/ CK_UnlockedGenerate(p, D)
    \/ CK_WriteFileOpen(p)
    \/ CK_WriteFileData(p)
    \/ CK_VaultWrite(p, D)
    \/ CK_GetAddressForKey(p, D)
    \/ CK_Rollback(p)
    \/ CK_RollbackDelete(p)
    \/ CK_MapAssign(p)
    \/ CK_StoreUnlock(p)
    \/ GK_Read(p)
    \/ SV_SignWithVault(p, D)
    \/ LS_Sign(p, D)
    \/ LU_Read(p)
    \/ LU_Sign(p, D)
    \/ Finish(p)

\* scheduling of the request goroutines: a goroutine that can run does run;
\* sync.RWMutex lets a blocked Lock exclude new readers and lets the readers
\* that wait in once the writer unlocks, so that a goroutine whose lock
\* request can be granted again and again is granted it.  Arrivals of
\* requests are not forced.
ConcFairness ==
    \A p \in Procs :
        /\ WF_vars(Runs(p, LockInputs))
        /\ SF_vars(GA_RLock(p))
        /\ SF_vars(GK_RLock(p))
        /\ SF_vars(LU_RLock(p))
        /\ SF_vars(CK_Lock(p))

\* requests served concurrently under that scheduling
ConcFairNext == \E p \in Procs : Step(p, LockInputs)

ConcFairSpec == Init /\ [][ConcFairNext]_vars /\ ConcFairness

\* the seconds of the client's clock at which the requests tried against
\* the middleware were signed: just outside and just inside the window
\* behind the server's clock, now, and just outside the same distance ahead
SentAts == {ServerNow - (maxTimeSkew + 1), ServerNow - maxTimeSkew, ServerNow,
            ServerNow + (maxTimeSkew + 1)}

\* requests tried against the earlier program, whose routes are wrapped by
\* the auth middleware
AuthInputs ==
    [methods |-> {"GET", "POST"},
     headers |-> {SdkSender(SdkClient, t) : t \in SentAts}
                   \cup {SdkSender([apiKey |-> ServerApiKey,
                                    apiSecret |-> "other-secret"],
                                   ServerNow), AnonymousSender,
                         ReplaySender(ServerNow), GarbledSender,
                         StampedSender(MinInt64Stamp),
                         StampedSender(AboveInt64Stamp)},
     wrapped |-> EarlierAuthWrapped,
     txBodies |-> TxBodies(NarrowAddresses, {PasswordOf(1)},
                           {DecimalChainId(1337)}, FeeShapes),
     messageBodies |-> MessageBodies(NarrowAddresses, {PasswordOf(1)},
                                     {<<72, 105>>}),
     parities |-> {0, 1},
     faults |-> TRUE,
     answers |-> AnswerShapes,
     maxKeys |-> 1]

\* the earlier main: NewKeyManager on the transit engine, no other backend
AuthInit ==
    /\ backend = "Remote"
    /\ \E n \in PreExisting : \E rot \in SUBSET (0..(n - 1)) :
         \E answers \in StartAnswers(n, rot) :
             NewKeyManager(n, rot, answers)
    /\ NoRequests

\* one step of the request goroutine p of the earlier program
SignerStep(p, D) ==
    \/ ServeAccounts(p, D)
    \/ ServeCreateAccount(p, D)
    \/ ServeSignTx(p, D)
    \/ ServeSignMessage(p, D)
    \/ ServeHealth(p, D)
    \/ GA_RLock(p)
    \/ GA_Range(p)
    \/ GA_RUnlock(p)
    \/ CK_VaultWrite(p, D)
    \/ KM_GetAddressForKey(p, D)
    \/ CK_Rollback(p)
    \/ CK_RollbackDelete(p)
    \/ CK_Lock(p)
    \/ CK_MapAssign(p)
    \/ CK_StoreUnlock(p)
    \/ GK_RLock(p)
    \/ GK_Read(p)
    \/ Signer_SignWithVault(p, D)
    \/ Finish(p)

\* requests served one after the other behind the auth middleware
AuthNext == \E p \in {1} : SignerStep(p, AuthInputs)

AuthSpec == AuthInit /\ [][AuthNext]_vars

----------------------------------------------------------------------------
(* Properties *)

\* x is not above y
BigLeq(x, y) == ~BigLess(y, x)

\* the request goroutine p has a finished call of the core operation op
Finished(p, op) == pc[p] = "done" /\ res[p].op = op

\* the key answered p's sign call with the signature, by the key of the
\* address the request names, of the very hash that was submitted
SignedByKeyOfFrom(p) ==
    /\ loc[p].answered
    /\ loc[p].rs.valid
    /\ loc[p].rs.h = loc[p].hash
    /\ PubkeyToAddress(loc[p].rs.k) = req[p].from

\* the address a recovered public key stands for, the zero address if
\* recovery failed
RecoveredAddress(r) == IF r.ok THEN PubkeyToAddress(r.pub) ELSE ZeroAddress

\* types.Sender with the Prague signer of the chain: the signer of a signed
\* transaction.  A legacy transaction with V in {27, 28} is unprotected and
\* is recovered from the six-field hash; otherwise V must carry the chain id.
recoverSigner(stx, chainID) ==
    IF stx.type = "Legacy"
    THEN IF stx.v \in {27, 28}
         THEN RecoveredAddress(Ecrecover(HomesteadHash(stx.body), stx.rs,
                                         stx.v - 27))
         ELSE IF (stx.v - 35) \div 2 # chainID THEN ZeroAddress
         ELSE RecoveredAddress(Ecrecover(EIP155Hash(stx.body, chainID), stx.rs,
                                         stx.v - 35 - 2 * chainID))
    ELSE IF stx.body.chainId # chainID \/ stx.v \notin {0, 1} THEN ZeroAddress
    ELSE RecoveredAddress(Ecrecover(DynamicFeeHash(stx.body, chainID), stx.rs,
                                    stx.v))

\* C1: on both backends, for both transaction variants and every (positive)
\* chain id, a SignTx call for a managed address whose key signed the
\* submitted hash succeeds, and the signer recovered from the signed
\* transaction is the address the request named.
C1_SignTxRoundTrip ==
    \A p \in Procs :
        (/\ Finished(p, "SignTx")
         /\ req[p].chainId > 0
         /\ req[p].from \in AddressMapKeys
         /\ SignedByKeyOfFrom(p))
        => /\ res[p].err = ""
           /\ recoverSigner(res[p].signedTx, req[p].chainId) = req[p].from

\* C2: on both backends a successful SignMessage call for a managed address
\* returns 65 bytes r||s||v with v = recovery id + 27, that is 27 or 28,
\* made over the hash of the prefixed message.
C2_SignMessageV27 ==
    \A p \in Procs :
        (/\ Finished(p, "SignMessage")
         /\ req[p].from \in AddressMapKeys
         /\ res[p].err = "")
        => /\ res[p].signature.len = 65
           /\ res[p].signature.v \in {27, 28}
           /\ res[p].signature.v = res[p].signature.rs.par + 27
           /\ res[p].signature.rs.h = PrefixedMessageHash(req[p].message)

\* the i-th and the j-th successful CreateKey calls were sequential: the
\* later one arrived after the earlier one had returned
Sequential(i, j) == i < j /\ created[j].begun >= i

\* C3: two sequential CreateKey calls that both succeed return distinct
\* addresses, and every GetAccounts call that starts later returns both.
C3_SequentialCreatesDistinct ==
    /\ \A i, j \in 1..Len(created) :
           Sequential(i, j) => created[i].addr # created[j].addr
    /\ \A p \in Procs :
           Finished(p, "GetAccounts")
           => \A i \in 1..req[p].begun : created[i].addr \in res[p].accounts

\* the AccountNotFound error of the key managers
AccountNotFound == "account not found or not managed by this signer: %s"

\* C4: on both backends a SignTx or SignMessage call for an address that is
\* not in the Address Map fails with the AccountNotFound error and returns
\* no signature and no signed transaction.
C4_UnmanagedAccountNotFound ==
    \A p \in Procs :
        (/\ Finished(p, "SignTx") \/ Finished(p, "SignMessage")
         /\ req[p].from \notin AddressMapKeys)
        => /\ res[p].err = AccountNotFound
           /\ res[p].signedTx.type = "none"
           /\ res[p].signature.len = 0

\* the routes that lead to a core operation
CoreRoutes == {"/accounts", "/create-account", "/sign-transaction",
               "/sign-message"}

\* the request of p is inside a core operation, or has come back from one
InCore(p) ==
    /\ req[p].route \in CoreRoutes
    /\ pc[p] \notin {"idle", "done"} \/ (pc[p] = "done" /\ res[p].op # "none")

\* C5: no core operation is invoked for a request that fails the
\* authentication check (X-API-Key, X-Timestamp, X-Signature all valid).
C5_CoreOnlyWhenAuthenticated ==
    \A p \in Procs : InCore(p) => req[p].authed

\* candidate i of recoverV matches for the sign call of p: the key recovered
\* from (hash, answer, i) is the key of the requested address
Match(p, i) ==
    LET r == Ecrecover(loc[p].hash, loc[p].rs, i)
    IN  r.ok /\ PubkeyToAddress(r.pub) = req[p].from

\* the Remote sign call of p has been answered by the backend and is over
RemoteAnswered(p) ==
    /\ backend = "Remote"
    /\ pc[p] = "done"
    /\ res[p].op \in {"SignTx", "SignMessage"}
    /\ loc[p].answered

\* C6: recoverV tries v = 0 before v = 1 and returns the first candidate
\* whose recovered address is the requested one; the result is a function
\* of hash, answer and address, and it is the v the signature carries.
C6_RecoverVFirstMatch ==
    \A p \in Procs :
        RemoteAnswered(p)
        => /\ Match(p, 0) => loc[p].rv = [err |-> "", v |-> 0]
           /\ (~Match(p, 0) /\ Match(p, 1)) => loc[p].rv = [err |-> "", v |-> 1]
           /\ (res[p].op = "SignMessage" /\ res[p].err = "")
              => res[p].signature.v = loc[p].rv.v
           /\ (res[p].op = "SignTx" /\ res[p].err = "")
              => res[p].signedTx.v =
                   EIP155SignatureValues(req[p].tx, req[p].chainId,
                                         loc[p].rv.v).v

\* a sign call where v = 0 was tried, did not match, and v = 1 was returned
C6_SecondCandidateReturned ==
    \E p \in Procs :
        /\ RemoteAnswered(p)
        /\ ~Match(p, 0) /\ Match(p, 1)
        /\ res[p].err = ""
        /\ res[p].op = "SignMessage"
        /\ res[p].signature.v = 1

\* C7: when neither candidate matches, the sign call returns the recovery
\* error as recoverV made it, unchanged, with no signature and no signed
\* transaction; it does not fall back to v = 0 and does not call the
\* backend again.
C7_RecoveryErrorUnchanged ==
    \A p \in Procs :
        (RemoteAnswered(p) /\ ~Match(p, 0) /\ ~Match(p, 1))
        => /\ loc[p].rv.err # ""
           /\ res[p].err = loc[p].rv.err
           /\ res[p].signedTx.type = "none"
           /\ res[p].signature.len = 0
           /\ loc[p].signCalls = 1

\* C8: on both backends a SignTx call for a managed address whose key signed
\* the submitted hash yields v = recid + 2 * chainId + 35 for a Legacy
\* transaction and v = recid for a DynamicFee transaction.
C8_VEncoding ==
    \A p \in Procs :
        (/\ Finished(p, "SignTx")
         /\ req[p].chainId > 0
         /\ req[p].from \in AddressMapKeys
         /\ SignedByKeyOfFrom(p))
        => /\ res[p].err = ""
           /\ res[p].signedTx.v =
                IF req[p].tx.type = "Legacy"
                THEN loc[p].rs.par + 2 * req[p].chainId + 35
                ELSE loc[p].rs.par

\* C9: each transaction variant has one signing-hash algorithm on both
\* backends: the hash handed to the key is the chain-id-protected hash of
\* a Legacy transaction and the type-tagged hash of a DynamicFee one.
C9_OneHashPerVariant ==
    \A p \in Procs :
        (loc[p].hashed /\ req[p].route = "/sign-transaction")
        => IF req[p].tx.type = "Legacy"
           THEN /\ loc[p].hash.alg = "rlp9"
                /\ loc[p].hash = EIP155Hash(req[p].tx, req[p].chainId)
           ELSE /\ loc[p].hash.alg = "typed"
                /\ loc[p].hash = DynamicFeeHash(req[p].tx, req[p].chainId)

\* C10: a GetAccounts call that runs while a CreateKey call is in flight
\* reads the Address Map either before or after the insertion: while it
\* holds its snapshot under the read lock no insertion is under way, the
\* snapshot is the whole key set, no entry lacks its key name; what it
\* returns holds every address created before it arrived and only
\* addresses of the map.
C10_ListSeesWholeMap ==
    \A p \in Procs :
        /\ pc[p] = "ga_runlock"
           => /\ \A q \in Procs : pc[q] \notin {"ck_assign", "ck_store"}
              /\ res[p].accounts = AddressMapKeys
              /\ backend = "Remote"
                 => \A a \in res[p].accounts : addressToKey[a] # EmptyKeyName
        /\ Finished(p, "GetAccounts")
           => /\ res[p].accounts \subseteq AddressMapKeys
              /\ \A i \in 1..req[p].begun : created[i].addr \in res[p].accounts

\* a GetAccounts call holds its snapshot, taken before the insertion, while
\* a CreateKey call waits for the write lock with its new address
C10_ListDuringCreate ==
    \E p, q \in Procs :
        /\ pc[p] = "ga_runlock"
        /\ pc[q] = "ck_lock"
        /\ loc[q].address \notin res[p].accounts

\* the request of p came in on a route behind the auth middleware
AtMiddleware(p) == pc[p] # "idle" /\ req[p].route \in EarlierAuthWrapped

\* the middleware answered the request of p itself: 401, handler not called
RejectedByAuth(p) ==
    /\ pc[p] = "done"
    /\ res[p].status = 401
    /\ res[p].op = "none"

\* the timestamp of the request of p is a number, age seconds behind the
\* server's clock (the difference of the two numbers, not wrapped)
TimestampAge(p) == BigSub(Int64(ServerNow), ParseInt(req[p].hdr.timestamp).n)

\* the X-Signature the SDK client computes for what p received
SdkSignature(p) ==
    calculateSignature(ServerApiSecret, req[p].hdr.timestamp, req[p].body)

\* C11: a request whose X-Timestamp is 61 seconds or more behind the
\* server's clock is rejected by the auth middleware and the wrapped handler
\* is not called, whatever X-Signature is, a correct HMAC included.
C11_StaleTimestampRejected ==
    \A p \in Procs :
        (/\ AtMiddleware(p)
         /\ ParseInt(req[p].hdr.timestamp).ok
         /\ BigLeq(Int64(maxTimeSkew + 1), TimestampAge(p)))
        => RejectedByAuth(p)

\* C12: the auth middleware lets a request through only if its X-Timestamp
\* is within 60 seconds of the server's clock in both directions.
C12_TimestampWithinWindowBothWays ==
    \A p \in Procs :
        (AtMiddleware(p) /\ ~RejectedByAuth(p))
        => /\ ParseInt(req[p].hdr.timestamp).ok
           /\ BigLeq(TimestampAge(p), Int64(maxTimeSkew))
           /\ BigLeq(Int64(0 - maxTimeSkew), TimestampAge(p))

\* the error the CreateKey call of p returns when the address of the new
\* key cannot be derived: the error of getAddressForKey, wrapped
DerivationError(p) ==
    Errorf("failed to get address for new key", loc[p].derr.text)

C14_CreateAccountReturnsSecret ==
    \A p \in Procs :
        (Finished(p, "CreateKey") /\ res[p].err = "")
        => /\ res[p].body.address = HexOf(res[p].address)
           /\ IF backend = "Local"
              THEN /\ "secret" \in DOMAIN res[p].body
                   /\ res[p].body.secret = keyDir[res[p].address].password
              ELSE "secret" \notin DOMAIN res[p].body

\* the request of p is as the SDK client configured with the server's key
\* and secret sends it: all three headers as doRequest makes them for the
\* second the timestamp names and for the body received
SentBySdk(p) ==
    /\ ParseInt(req[p].hdr.timestamp).ok
    /\ req[p].hdr = doRequest(SdkClient, ParseInt(req[p].hdr.timestamp).n,
                              req[p].body)

\* C15: a request the SDK client signs with the key and secret of the
\* server, at a second the server's clock has reached and not left behind by
\* more than the window, is passed on by the auth middleware; a request
\* whose X-Signature is not hex(HMAC-SHA256(apiSecret, timestamp + body))
\* for the timestamp and body received is rejected.
C15_SdkSignatureAccepted ==
    \A p \in Procs :
        AtMiddleware(p)
        => /\ (/\ SentBySdk(p)
               /\ BigLeq(Int64(0), TimestampAge(p))
               /\ BigLeq(TimestampAge(p), Int64(maxTimeSkew)))
              => ~RejectedByAuth(p)
           /\ req[p].hdr.signature # SdkSignature(p) => RejectedByAuth(p)

\* a /sign-message request of the SDK client went through the middleware
\* and SignMessage ran for it
C15_SdkRequestServed ==
    \E p \in Procs :
        /\ AtMiddleware(p)
        /\ SentBySdk(p)
        /\ req[p].body # <<>>
        /\ Finished(p, "SignMessage")

SignRoutes == {"/sign-transaction", "/sign-message"}

\* the JSON document of the sign request of p, once the handler decoded it
DecodedBody(p) == req[p].body[1]

\* p serves a POST on a sign route whose body is a JSON document
SignRequest(p) ==
    /\ pc[p] # "idle"
    /\ req[p].route \in SignRoutes
    /\ req[p].method = "POST"
    /\ Len(req[p].body) = 1
    /\ DecodedBody(p).json

\* the handler answered the request of p itself with a client error
ClientError(p) ==
    /\ pc[p] = "done"
    /\ res[p].status = 400
    /\ res[p].op = "none"

\* C16: a sign request for an address that is not in the Address Map is
\* answered with a not-found status, which is neither the client error of
\* a validation failure nor the server error of a backend failure.
C16_UnmanagedIsNotFound ==
    \A p \in Procs :
        (/\ Finished(p, "SignTx") \/ Finished(p, "SignMessage")
         /\ req[p].from \notin AddressMapKeys)
        => /\ res[p].status = 404
           /\ res[p].status \notin {400, 500}

\* C17: a sign request whose "from" is absent or no well-formed hex
\* address, or whose "to" is no well-formed hex address, is answered with
\* a client error and the key manager is not called for it.
C17_IllFormedAddressRejected ==
    \A p \in Procs :
        (/\ SignRequest(p)
         /\ \/ DecodedBody(p).from.text # "hex"
            \/ /\ req[p].route = "/sign-transaction"
               /\ DecodedBody(p).to.text \notin {"hex", ""})
        => ClientError(p)

\* C18: a POST /sign-message whose body has the fields from and message
\* and no others, from being a managed address, reaches SignMessage and is
\* answered with a signature; a POST /sign-transaction without further
\* fields than the contract's reaches SignTx.
C18_ContractFieldsSuffice ==
    \A p \in Procs :
        (/\ SignRequest(p)
         /\ DecodedBody(p).from.text = "hex"
         /\ HexToAddress(DecodedBody(p).from) \in AddressMapKeys
         /\ DecodedBody(p).secret = NoSecret
         /\ req[p].route = "/sign-transaction" => DecodedBody(p).chainId.n # Nil)
        => ~ClientError(p)

\* C19: no operation of the Key Manager hands a key handle to its caller:
\* what GetAccounts, CreateKey, SignTx and SignMessage return, the text of
\* an error included, and what the handler answers with, holds addresses,
\* the creation secret, signatures and signed transactions, and never the
\* name of a transit key.
C19_NoHandleInResults ==
    \A p \in Procs :
        pc[p] = "done"
        => /\ res[p].errKeyName = EmptyKeyName
           /\ "keyName" \in DOMAIN res[p].body
              => res[p].body.keyName = EmptyKeyName

\* C20: the Address Map is append-only after startup: no step removes an
\* address from it, and no step changes the key name an address is mapped
\* to once the insertion has stored it (the empty name is the slot of an
\* insertion under way, which only the holder of the write lock sees).
C20_AddressMapAppendOnly ==
    [][/\ accounts \subseteq accounts'
       /\ DOMAIN keys \subseteq DOMAIN keys'
       /\ \A a \in DOMAIN keys : keys'[a] = keys[a]
       /\ DOMAIN addressToKey \subseteq DOMAIN addressToKey'
       /\ \A a \in DOMAIN addressToKey :
            addressToKey[a] # EmptyKeyName => addressToKey'[a] = addressToKey[a]
       /\ \A a \in DOMAIN addressToKey' \ DOMAIN addressToKey :
            /\ mu.writer # 0
            /\ addressToKey'[a] = EmptyKeyName]_vars

\* a key created after startup is in the map next to another entry
C20_EntryAppended ==
    /\ Len(created) >= 1
    /\ created[1].addr \in AddressMapKeys
    /\ \E a \in AddressMapKeys : a # created[1].addr

\* the private key behind the entry of address a: the key encrypted in the
\* file of that name, the key the map holds, or the transit key of the
\* mapped name; 0 if there is none
KeyMaterial(a) ==
    CASE backend = "Local" ->
           IF a \in DOMAIN keyDir THEN keyDir[a].priv ELSE 0
      [] backend = "LocalUnlocked" ->
           IF a \in DOMAIN keys THEN keys[a] ELSE 0
      [] OTHER ->
           IF addressToKey[a].id \in DOMAIN vaultKeys
           THEN vaultKeys[addressToKey[a].id] ELSE 0

\* C21: every entry of the Address Map, at startup and after any sequence
\* of CreateKey calls, maps the address derived from the public key of the
\* entry's key material (an entry whose insertion is under way excepted).
C21_EntriesMatchKeyMaterial ==
    \A a \in AddressMapKeys :
        \/ backend = "Remote" /\ addressToKey[a] = EmptyKeyName
        \/ PubkeyToAddress(KeyMaterial(a)) = a

\* the positions of CreateKey at which it calls the backend (key creation,
\* address derivation, compensation) or waits for the write lock
CreateBackendPhases ==
    {"ck_backend", "ck_open", "ck_write", "ck_addr", "ck_rollback",
     "ck_delete", "ck_lock"}

\* the positions of CreateKey between km.mu.Lock() and the deferred Unlock
InsertionPhases == {"ck_assign", "ck_store"}

\* C22: CreateKey holds the write lock of the Address Map during the map
\* insertion only, never during the backend's key creation or the address
\* derivation; a GetAccounts call or key-name lookup that asks for the read
\* lock while the other CreateKey calls are at the backend is let in.
C22_BackendCallsOutsideLock ==
    /\ \A p \in Procs : mu.writer = p <=> pc[p] \in InsertionPhases
    /\ \A q \in Procs :
         (/\ pc[q] \in {"ga_rlock", "gk_rlock", "lu_rlock"}
          /\ \E p \in Procs : pc[p] \in CreateBackendPhases
          /\ \A p \in Procs : pc[p] \notin InsertionPhases)
         => CanRLock(mu)

\* a GetAccounts call holds the read lock while a CreateKey call is between
\* the creation of its key and the derivation of the address
C22_ListedDuringBackendCall ==
    \E p, q \in Procs :
        /\ pc[p] = "ck_addr"
        /\ pc[q] = "ga_range"
        /\ q \in mu.readers

\* C23: the key name CreateKey generates on the Remote backend is not among
\* the key names the backend already holds: no step in which CreateKey
\* draws its name and sends the creation draws the name of an existing key.
C23_FreshKeyName ==
    [][\A p \in Procs :
         (pc[p] = "ck_backend" /\ pc'[p] = "ck_addr")
         => loc'[p].keyName.id \notin DOMAIN vaultKeys]_vars

\* the positions of SignTx / SignMessage in the key managers
SignPhases ==
    {"gk_rlock", "gk_read", "sv_sign", "ls_sign", "lu_rlock", "lu_read",
     "lu_sign"}

\* the signing hash of the request of p, computed from the request alone
RequestHash(p) ==
    IF req[p].route = "/sign-message" THEN PrefixedMessageHash(req[p].message)
    ELSE IF backend = "Remote" THEN VaultTxHash(req[p].tx, req[p].chainId)
    ELSE LocalTxHash(req[p].tx, req[p].chainId)

\* C24: no step of SignTx or SignMessage, successful or failed, changes the
\* Address Map or the keys of the backend; the hash a sign call submits is
\* the hash of its request, and the key that answers is the key behind the
\* address of the request, so that a repeated request submits the same hash
\* to the same key.
C24_SignChangesNothing ==
    [][\A p \in Procs :
         (pc[p] \in SignPhases /\ pc'[p] # pc[p])
         => /\ UNCHANGED <<accounts, keys, addressToKey, keyDir, vaultKeys, rotated,
                          nextKey>>
            /\ loc'[p].hashed => loc'[p].hash = RequestHash(p)
            /\ loc'[p].answered
               => loc'[p].rs \in {MalformedRS(RequestHash(p))}
                    \cup {SignatureRS(KeyMaterial(req[p].from), h, par) :
                            h \in {RequestHash(p), Sha256Of(RequestHash(p))},
                            par \in {0, 1}}]_vars

\* a SignTx call for a managed address has returned a signed transaction
C24_SignedAndMapKept ==
    \E p \in Procs :
        /\ Finished(p, "SignTx")
        /\ res[p].err = ""
        /\ loc[p].hash = RequestHash(p)
        /\ req[p].from \in AddressMapKeys

\* the positions of CreateKey
CreatePhases == CreateBackendPhases \cup InsertionPhases

\* C25: the Address Map gains an entry only in the insertion step of a
\* CreateKey call, the entry is the address that call has derived, and the
\* call then returns success with that address; a CreateKey call that
\* returns an error has made no step that changed the map.
C25_EntryOnlyOnSuccess ==
    [][/\ AddressMapKeys' # AddressMapKeys
          => \E p \in Procs :
               /\ pc[p] = "ck_assign" /\ pc'[p] = "ck_store"
               /\ AddressMapKeys' = AddressMapKeys \cup {loc[p].address}
       /\ \A p \in Procs :
            /\ (pc[p] = "ck_store" /\ pc'[p] # pc[p])
               => /\ res'[p].err = ""
                  /\ res'[p].address = loc[p].address
                  /\ res'[p].address \in AddressMapKeys'
            /\ (pc[p] \in CreatePhases /\ pc'[p] = "done" /\ res'[p].err # "")
               => /\ AddressMapKeys' = AddressMapKeys
                  /\ pc[p] \notin InsertionPhases
                  /\ res'[p].address = ZeroAddress]_vars

\* a CreateKey call on the Remote backend returned an error after it had
\* created a key, and the map is as empty as it was
C25_FailedAndMapUnchanged ==
    \E p \in Procs :
        /\ Finished(p, "CreateKey")
        /\ res[p].err # ""
        /\ loc[p].keyName # EmptyKeyName
        /\ Len(created) = 0
        /\ AddressMapKeys = {}

\* C26: whatever the transit engine answers to the sign request, the call
\* of signWithVault ends with 64 bytes or with an error value; it does not
\* end in a panic.
C26_SignWithVaultNeverPanics ==
    \A p \in Procs :
        (backend = "Remote" /\ pc[p] = "done" /\ loc[p].signCalls > 0)
        => /\ res[p].err \notin Panics
           /\ IF loc[p].answered THEN loc[p].rsLen = 64 ELSE res[p].err # ""

\* the i-th and the j-th successful CreateKey calls overlapped: the later
\* one had arrived before the earlier one returned
Overlapping(i, j) == i < j /\ created[j].begun < i

\* C27: whatever the interleaving of concurrent CreateKey calls, the
\* address of every call that has returned success is in the Address Map
\* under a key name, and every GetAccounts call returns the addresses of
\* all the calls that had returned when it arrived.
C27_NoInsertionLost ==
    /\ \A i \in 1..Len(created) :
         /\ created[i].addr \in AddressMapKeys
         /\ backend = "Remote"
            => addressToKey[created[i].addr].prefix = "eth-key-"
    /\ \A p \in Procs :
         Finished(p, "GetAccounts")
         => {created[i].addr : i \in 1..req[p].begun} \subseteq res[p].accounts

\* two CreateKey calls that overlapped have returned distinct addresses, and
\* a GetAccounts call that arrived afterwards has returned both
C27_BothListedAfterOverlap ==
    \E p \in Procs :
        /\ Len(created) = 2
        /\ Overlapping(1, 2)
        /\ created[1].addr # created[2].addr
        /\ Finished(p, "GetAccounts")
        /\ req[p].begun = 2
        /\ {created[1].addr, created[2].addr} \subseteq res[p].accounts

\* the positions at which an operation asks for the lock of the Address Map
LockRequests == {"ga_rlock", "gk_rlock", "lu_rlock", "ck_lock"}

\* the positions at which an operation holds the read lock
ReadHeld == {"ga_range", "ga_runlock", "gk_read", "lu_read"}

\* C28: an operation holds the lock of the Address Map exactly between its
\* acquisition and its release: none returns holding it, none asks for it
\* while holding it; and under fair scheduling every GetAccounts call,
\* CreateKey insertion and key-name lookup that asks for the lock gets it
\* and returns.
C28_LockReleasedAndGranted ==
    /\ [](\A p \in Procs :
            /\ p \in mu.readers <=> pc[p] \in ReadHeld
            /\ mu.writer = p <=> pc[p] \in InsertionPhases
            /\ mu.writer \in Procs \cup {0}
            /\ mu.readers \subseteq Procs
            /\ mu.writer # 0 => mu.readers = {})
    /\ \A p \in Procs : (pc[p] \in LockRequests) ~> (pc[p] = "done")

\* a CreateKey call waits for the write lock while a GetAccounts call holds
\* the read lock
C28_WriterWaitsForReader ==
    \E p, q \in Procs :
        /\ pc[p] = "ck_lock"
        /\ pc[q] \in {"ga_range", "ga_runlock"}
        /\ q \in mu.readers
        /\ ~CanLock(mu)

\* the fee fields of a body make no supported transaction shape: one of
\* the two fee caps without the other, or neither fee caps nor gas price
UnsupportedShape(b) ==
    \/ (b.gasFeeCap = Nil) # (b.gasTipCap = Nil)
    \/ b.gasFeeCap = Nil /\ b.gasTipCap = Nil /\ b.gasPrice = Nil

\* C29: the /sign-transaction handler builds one transaction per request,
\* DynamicFee exactly when the body has both gasFeeCap and gasTipCap, else
\* Legacy with the gas price of the body; a body of an unsupported shape is
\* answered with a client error and no transaction is built for it.
C29_OneVariantOrRejected ==
    \A p \in Procs :
        (SignRequest(p) /\ req[p].route = "/sign-transaction")
        => LET b == DecodedBody(p) IN
             /\ req[p].tx.type # "none"
                => /\ req[p].tx.type =
                        IF b.gasFeeCap # Nil /\ b.gasTipCap # Nil
                        THEN "DynamicFee" ELSE "Legacy"
                   /\ req[p].tx.type = "Legacy"
                      => req[p].tx.gasPrice = b.gasPrice
             /\ UnsupportedShape(b) => ClientError(p)

\* C30: in every interleaving of CreateKey and sign requests, a sign call
\* returns a signature or a signed transaction only for an address that is
\* in the Address Map when the call signs; between the writing of the key
\* file and the insertion of CreateKey the new address is refused.
C30_SignableOnlyWhileMapped ==
    [][\A p \in Procs :
         (/\ pc[p] \in {"ls_sign", "lu_sign", "sv_sign"}
          /\ pc'[p] = "done"
          /\ res'[p].err = "")
         => req[p].from \in AddressMapKeys]_vars

\* a CreateKey call of the LocalKeyManager has written its key file and has
\* not yet inserted the address, and a sign request for that address has
\* found the key file and has been refused
C30_RefusedBeforeInsertion ==
    \E p, q \in Procs :
        /\ backend = "Local"
        /\ pc[q] = "ck_lock"
        /\ loc[q].address \in DOMAIN keyDir
        /\ keyDir[loc[q].address] = loc[q].keyJson
        /\ loc[q].address \notin accounts
        /\ SignRequest(p)
        /\ pc[p] = "done"
        /\ req[p].from = loc[q].address
        /\ res[p].err = Errorf("failed to decrypt key for address %s",
                               LibraryError("keystore"))
        /\ res[p].signedTx.type = "none"
        /\ res[p].signature.len = 0

====
